---------------------------- MODULE Spec2Model ----------------------------
(***************************************************************************)
(* Model of jira-bug-analyzer: the retrieval engine of JiraService         *)
(* (fetchBugs and its pagination/hydration loop) and the analysis          *)
(* pipeline of ClaudeService (de-fencing, JSON parsing, enrichAnalysis).   *)
(***************************************************************************)
EXTENDS Integers, Sequences, FiniteSets, TLC

(***************************************************************************)
(* Bounds of the model.                                                    *)
(***************************************************************************)
MaxN == 2          \* largest maxResults the caller passes
MaxPages == 2      \* search requests answered by the tracker per call
MaxListed == 3     \* issue ids listed by the tracker during one call
MaxId == 2         \* distinct issue ids of the tracker

(***************************************************************************)
(* Program constants.                                                      *)
(***************************************************************************)
DefaultMaxResults == 100
PageSize == 50

Undefined == "<undefined>"
NoToken == "<null>"
\* Opaque continuation tokens: the tracker hands out the k-th one with the
\* k-th page.
TokenNames == <<"T1", "T2", "T3", "T4", "T5">>
IssueIds == 1..MaxId

Min(a, b) == IF a < b THEN a ELSE b

\* JavaScript truthiness of an optional string argument.
TruthyStr(s) == s # Undefined /\ s # ""

SeqsUpTo(S, n) == UNION {[1..k -> S] : k \in 0..n}

VARIABLES
  options,        \* argument of fetchBugs
  pc,             \* position of the fetch call
  jql,            \* query text sent to the search endpoint
  maxResults,     \* local maxResults of fetchBugs
  bugs,           \* accumulator of fetchBugsWithJqlEndpoint
  nextPageToken,  \* continuation token variable of the loop
  issueIds,       \* ids listed by the page being processed
  idx,            \* position of the for-loop in issueIds
  data,           \* decoded body of the latest search response
  returned,       \* value delivered to the caller
  error,          \* error the call ended with
  searchCount,    \* history: search requests issued
  filterCount,    \* history: filter-lookup requests issued
  okIds,          \* history: ids whose hydration succeeded, in order
  hydFailed,      \* history: a hydration failed
  listed,         \* history: number of ids listed by the pages so far
  searchFailed,   \* history: a search response had a non-success status
  lastSeen,       \* history: a search response carried isLast = true
  sentToken,      \* continuation token of the latest search request
  sentSize,       \* maxResults parameter of the latest search request
  command,        \* entry point: "api", "fetch" or "run"
  argv,           \* command-line options of the command
  connCount,      \* history: testConnection calls issued
  connResult,     \* result of testConnection ("none" before it)
  cmdExit,        \* exit status of the command (-1: not exited)
  cmdMessage,     \* final spinner message of the command
  rawIssue,       \* raw issue handed to the record mapper
  mapped,         \* outcome of the record mapper
  aPc,            \* position of the analyze command
  mode,           \* analysis mode of the command
  inputBugs,      \* records loaded from the input file
  filteredBugs,   \* records passed to analyzeBugs
  replyText,      \* text block of the AI reply
  jsonText,       \* the reply after de-fencing
  analysis,       \* result of JSON.parse
  report,         \* value returned by analyzeBugs (empty: none)
  rendered,       \* report handed to outputResults (empty: none)
  aError,         \* error caught by the command
  exitCode,       \* process exit status (-1: still running)
  replied,        \* history: the AI service returned a text block
  prompt,         \* the prompt sent to the AI service (<<>> before)
  aiRequests,     \* history: the bug lists passed to analyzeBugs
  service,        \* fields of the JiraService instance shared by its calls
  tracker,        \* pages and failing ids the tracker serves to the calls
  calls,          \* per call: position, arguments and block-scoped values
  locals          \* per call: bugs and nextPageToken of the pagination loop

fetchVars == <<options, pc, jql, maxResults, bugs, nextPageToken, issueIds,
               idx, data, returned, error, searchCount, filterCount, okIds,
               hydFailed, listed, searchFailed, lastSeen, sentToken,
               sentSize>>

commandVars == <<command, argv, connCount, connResult, cmdExit, cmdMessage>>

mapperVars == <<rawIssue, mapped>>

analyzeVars == <<aPc, mode, inputBugs, filteredBugs, replyText, jsonText,
                 analysis, report, rendered, aError, exitCode, replied,
                 prompt, aiRequests>>

concVars == <<service, tracker, calls, locals>>

vars == <<fetchVars, analyzeVars, commandVars, mapperVars, concVars>>

(***************************************************************************)
(* Tracker data.                                                           *)
(***************************************************************************)
FilterJql == "filter-jql"
IssueOf(id) == [id |-> id, key |-> id, fields |-> "f"]

\* mapIssueToBug, restricted to the identity attributes of the record.
MapIssueToBug(issue) == [key |-> issue.key, id |-> issue.id]

\* buildJql
BuildJql(project) ==
  IF TruthyStr(project)
  THEN <<"type = Bug", " AND ", "project = \"", project, "\"",
         " ORDER BY created DESC">>
  ELSE <<"type = Bug", " ORDER BY created DESC">>

\* FetchOptions.maxResults is a number: the callers pass a count, 0, or a
\* negative number (parseInt of the --max option accepts a sign).
OptionSet ==
  [project : {Undefined, "PROJ"},
   jql : {Undefined, "Q"},
   filterId : {Undefined, "F1"},
   hasMax : BOOLEAN,
   maxResults : (0..MaxN) \cup {-1}]

FetchInit ==
  /\ options \in {o \in OptionSet : ~o.hasMax => o.maxResults = 0}
  /\ pc = "start"
  /\ jql = <<>>
  /\ maxResults = 0
  /\ bugs = <<>>
  /\ nextPageToken = NoToken
  /\ issueIds = <<>>
  /\ idx = 1
  /\ data = [nextPageToken |-> Undefined, isLast |-> FALSE]
  /\ returned = <<>>
  /\ error = "none"
  /\ searchCount = 0
  /\ filterCount = 0
  /\ okIds = <<>>
  /\ hydFailed = FALSE
  /\ listed = 0
  /\ searchFailed = FALSE
  /\ lastSeen = FALSE
  /\ sentToken = NoToken
  /\ sentSize = 0

\* options.maxResults || 100
EffectiveMax(o) ==
  IF o.hasMax /\ o.maxResults # 0 THEN o.maxResults ELSE DefaultMaxResults

\* Variant of ChooseJql in which the project key wins over the explicit
\* query.
ChooseJql_ProjectFirst(o) ==
  IF TruthyStr(o.project) THEN BuildJql(o.project)
  ELSE IF TruthyStr(o.jql) THEN <<o.jql>> ELSE BuildJql(o.project)

\* options.jql || this.buildJql(options.project)
ChooseJql(o) == IF TruthyStr(o.jql) THEN <<o.jql>> ELSE BuildJql(o.project)

(***************************************************************************)
(* fetchBugs: default of maxResults, then the choice of the query source.  *)
(***************************************************************************)
FetchBugs ==
  /\ pc = "start"
  /\ maxResults' = EffectiveMax(options)
  /\ IF TruthyStr(options.filterId)
     THEN \* fetchBugsByFilter issues the filter lookup
          /\ pc' = "filterWait"
          /\ filterCount' = filterCount + 1
          /\ jql' = jql
     ELSE /\ pc' = "loop"
          /\ jql' = ChooseJql(options)
          /\ filterCount' = filterCount
  /\ UNCHANGED <<sentSize, sentToken, options, bugs, nextPageToken, issueIds, idx, data,
                 returned, error, searchCount, okIds, hydFailed, listed,
                 searchFailed, lastSeen>>
  /\ UNCHANGED <<analyzeVars, commandVars, mapperVars, concVars>>

\* Variant of FilterNotOk: a failed lookup falls back to the query built
\* from the other options.
FilterNotOk_FallsBack ==
  /\ pc' = "loop"
  /\ error' = error
  /\ jql' = ChooseJql(options)

\* if (!filterResponse.ok) throw new Error(`Failed to get filter: ...`)
FilterNotOk ==
  /\ pc' = "failed"
  /\ error' = "Failed to get filter"
  /\ jql' = jql

\* fetchBugsByFilter: the response of GET /filter/{id}?expand=jql
FilterResponse ==
  /\ pc = "filterWait"
  /\ \E ok \in BOOLEAN :
       IF ok
       THEN /\ jql' = <<FilterJql>>
            /\ pc' = "loop"
            /\ error' = error
       ELSE FilterNotOk
  /\ UNCHANGED <<sentSize, sentToken, options, maxResults, bugs, nextPageToken, issueIds, idx,
                 data, returned, searchCount, filterCount, okIds,
                 hydFailed, listed, searchFailed, lastSeen>>
  /\ UNCHANGED <<analyzeVars, commandVars, mapperVars, concVars>>

\* The maxResults parameter of the search URL.
RequestedSize == Min(PageSize, maxResults - Len(bugs))

\* Variant of RequestToken: the token is never added to the URL.
RequestToken_Omitted == NoToken

\* if (nextPageToken) url += `&nextPageToken=...`: the token of the request.
RequestToken == IF TruthyStr(nextPageToken) THEN nextPageToken ELSE NoToken

\* Top of the do-loop body: the search request is sent.
SearchRequest ==
  /\ pc = "loop"
  /\ searchCount < MaxPages
  /\ searchCount' = searchCount + 1
  /\ sentToken' = RequestToken
  /\ sentSize' = RequestedSize
  /\ pc' = "searchWait"
  /\ UNCHANGED <<options, jql, maxResults, bugs, nextPageToken, issueIds,
                 idx, data, returned, error, filterCount, okIds, hydFailed,
                 listed, searchFailed, lastSeen>>
  /\ UNCHANGED <<analyzeVars, commandVars, mapperVars, concVars>>

\* The same step against a tracker that answers any number of search
\* requests: the history counter stops counting at MaxPages.
SearchRequestUnbounded ==
  /\ pc = "loop"
  /\ searchCount' = Min(searchCount + 1, MaxPages)
  /\ sentToken' = RequestToken
  /\ sentSize' = RequestedSize
  /\ pc' = "searchWait"
  /\ UNCHANGED <<options, jql, maxResults, bugs, nextPageToken, issueIds,
                 idx, data, returned, error, filterCount, okIds, hydFailed,
                 listed, searchFailed, lastSeen>>
  /\ UNCHANGED <<analyzeVars, commandVars, mapperVars, concVars>>

\* Variant of SearchNotOk: the failure ends the loop like a break and the
\* records accumulated so far are returned.
SearchNotOk_ReturnsPartial ==
  /\ pc' = "done"
  /\ error' = error
  /\ returned' = bugs

\* if (!response.ok) throw new Error(`Search failed: ...`)
SearchNotOk ==
  /\ pc' = "failed"
  /\ error' = "Search failed"
  /\ returned' = returned

\* The search response arrives: either a failure status or a page.
SearchResponse ==
  /\ pc = "searchWait"
  /\ \/ /\ searchFailed' = TRUE
        /\ SearchNotOk
        /\ UNCHANGED <<issueIds, idx, data, lastSeen, listed>>
     \/ \E ids \in SeqsUpTo(IssueIds, MaxListed - listed),
           tok \in {TokenNames[searchCount], Undefined},
           last \in BOOLEAN :
          /\ data' = [nextPageToken |-> tok, isLast |-> last]
          /\ issueIds' = ids
          /\ idx' = 1
          /\ listed' = listed + Len(ids)
          /\ lastSeen' = (lastSeen \/ last)
          /\ pc' = "forLoop"
          /\ UNCHANGED <<returned, error, searchFailed>>
  /\ UNCHANGED <<sentSize, sentToken, options, jql, maxResults, bugs, nextPageToken,
                 searchCount, filterCount, okIds, hydFailed>>
  /\ UNCHANGED <<analyzeVars, commandVars, mapperVars, concVars>>

\* Variant of ForContinues without the test of the cap inside the for-loop.
ForContinues_NoCapTest == idx <= Len(issueIds)

\* for (const issueId of issueIds) { if (bugs.length >= maxResults) break;
ForContinues == idx <= Len(issueIds) /\ ~(Len(bugs) >= maxResults)

\* The hydration request of the next id is sent.
HydrateRequest ==
  /\ pc = "forLoop"
  /\ ForContinues
  /\ pc' = "hydrateWait"
  /\ UNCHANGED <<sentSize, sentToken, options, jql, maxResults, bugs, nextPageToken, issueIds,
                 idx, data, returned, error, searchCount, filterCount,
                 okIds, hydFailed, listed, searchFailed, lastSeen>>
  /\ UNCHANGED <<analyzeVars, commandVars, mapperVars, concVars>>

HydrationOutcomes == {"ok", "status", "exception"}

\* fetchIssueById: the mapped record, or null on a failure.
FetchIssueById(id, outcome) ==
  IF outcome = "ok" THEN <<MapIssueToBug(IssueOf(id))>> ELSE <<>>

\* Variant of PushIssue without the null test: a failed hydration pushes
\* the null it produced.
NullBug == [key |-> 0, id |-> 0]
PushIssue_NoNullTest(acc, issue) ==
  IF issue = <<>> THEN Append(acc, NullBug) ELSE acc \o issue

\* Variant of PushIssue that puts the new record in front of the list.
PushIssue_Prepends(acc, issue) == issue \o acc

\* if (issue) bugs.push(issue)
PushIssue(acc, issue) == acc \o issue

\* Variant of NextIdx: a failed hydration leaves the loop on the same id,
\* so the request is issued again.
NextIdx_RetryOnFailure(outcome) == IF outcome = "ok" THEN idx + 1 ELSE idx

\* for (const issueId of issueIds): the loop moves on whatever
\* fetchIssueById returned.
NextIdx(outcome) == idx + 1

\* The hydration response arrives and the loop moves to the next id.
HydrateResponse ==
  /\ pc = "hydrateWait"
  /\ \E outcome \in HydrationOutcomes :
       /\ bugs' = PushIssue(bugs, FetchIssueById(issueIds[idx], outcome))
       /\ okIds' = IF outcome = "ok" THEN Append(okIds, issueIds[idx]) ELSE okIds
       /\ hydFailed' = (hydFailed \/ outcome # "ok")
       /\ idx' = NextIdx(outcome)
  /\ pc' = "forLoop"
  /\ UNCHANGED <<sentSize, sentToken, options, jql, maxResults, nextPageToken, issueIds, data,
                 returned, error, searchCount, filterCount, listed,
                 searchFailed, lastSeen>>
  /\ UNCHANGED <<analyzeVars, commandVars, mapperVars, concVars>>

\* Variant of BreakAfterPage that does not look at isLast.
BreakAfterPage_IgnoresIsLast == Len(bugs) >= maxResults

\* if (data.isLast || bugs.length >= maxResults) break;
BreakAfterPage == data.isLast \/ Len(bugs) >= maxResults

\* data.nextPageToken || null
TokenOrNull(t) == IF TruthyStr(t) THEN t ELSE NoToken

\* End of the for-loop: token update, break test, while test, return.
PageDone ==
  /\ pc = "forLoop"
  /\ ~ForContinues
  /\ nextPageToken' = TokenOrNull(data.nextPageToken)
  /\ IF BreakAfterPage \/ nextPageToken' = NoToken
     THEN /\ pc' = "done"
          /\ returned' = bugs
     ELSE /\ pc' = "loop"
          /\ returned' = returned
  /\ UNCHANGED <<sentSize, sentToken, options, jql, maxResults, bugs, issueIds, idx, data,
                 error, searchCount, filterCount, okIds, hydFailed, listed,
                 searchFailed, lastSeen>>
  /\ UNCHANGED <<analyzeVars, commandVars, mapperVars, concVars>>

(***************************************************************************)
(* JavaScript values of the analysis pipeline.  A value carries its type   *)
(* tag; an object is a function over Keys whose absent properties are      *)
(* undefined.                                                              *)
(***************************************************************************)
JUndef == [t |-> "undefined"]
JNull == [t |-> "null"]
JBool(b) == [t |-> "bool", v |-> b]
JNum(n) == [t |-> "num", v |-> n]
JStr(str) == [t |-> "str", v |-> str]
JArr(a) == [t |-> "arr", v |-> a]
JObj(o) == [t |-> "obj", v |-> o]

TopKeys ==
  {"rootCauseClusters", "recurringIssues", "componentHotspots", "summary",
   "recommendations", "escapePatterns", "suggestedTestScenarios",
   "testingGaps", "defectInjectionPoints", "componentRiskScores",
   "regressionAnalysis", "customerImpacts", "testDataRecommendations",
   "processImprovements", "trendMetrics", "automationOpportunities",
   "linuxPortAnalysis"}

ElementKeys ==
  {"id", "name", "description", "rootCause", "bugKeys", "affectedComponents",
   "severity", "suggestedFix", "category", "frequency", "type", "targetBugs",
   "preconditions", "steps", "expectedOutcome", "priority", "area",
   "currentCoverage", "suggestedImprovement", "impactedBugCount", "phase",
   "preventionStrategy", "component", "riskScore", "escapeHistory",
   "complexityFactor", "changeFrequency", "recommendation", "isRegression",
   "bugKey", "relatedBugKeys", "regressionType", "likelyCause",
   "impactLevel", "affectedUsers", "businessFunction", "workaroundAvailable",
   "estimatedCost", "dataPatterns", "edgeCases", "suggestion", "rationale",
   "effort", "impact", "period", "totalBugs", "escapesByCategory",
   "topComponents", "riskTrend", "comparisonToPrevious", "text", "reasoning",
   "trend", "bugCount"}

Keys == TopKeys \cup ElementKeys

EmptyObject == JObj([k \in Keys |-> JUndef])
With(obj, k, val) == JObj([obj.v EXCEPT ![k] = val])

\* Values that the || operator replaces by its right operand.
Falsy(x) ==
  \/ x.t \in {"undefined", "null"}
  \/ (x.t = "bool" /\ ~x.v)
  \/ (x.t = "num" /\ x.v = 0)
  \/ (x.t = "str" /\ x.v = "")

\* a || b
Or(a, b) == IF Falsy(a) THEN b ELSE a

\* Property access x.k raises a TypeError on null and undefined.
AccessThrows(x) == x.t \in {"undefined", "null"}

\* x.k where x is not null or undefined; x?.k in general.
Get(x, k) == IF x.t = "obj" THEN x.v[k] ELSE JUndef

\* x.map(...) raises a TypeError unless x is an array.
MapThrows(x) == x.t # "arr"
Elements(x) == IF x.t = "arr" THEN x.v ELSE <<>>
MapSeq(F(_), seq) == [i \in 1..Len(seq) |-> F(seq[i])]

EmptyArray == JArr(<<>>)
Medium == JStr("medium")
EmptyString == JStr("")

(***************************************************************************)
(* enrichAnalysis: the element mappers, in the order of the source.        *)
(***************************************************************************)

\* Variant of BugMapGet that falls back to the first record when the key is
\* unknown.
BugMapGet_FallsBack(records, key) ==
  LET hits == {i \in 1..Len(records) :
                 key.t = "str" /\ records[i].key = key.v}
  IN IF hits = {} THEN (IF Len(records) > 0 THEN records[1] ELSE JUndef)
     ELSE records[CHOOSE i \in hits : \A j \in hits : j <= i]

\* new Map(bugs.map((b) => [b.key, b])).get(key): the last record with the
\* key, or undefined.
BugMapGet(records, key) ==
  LET hits == {i \in 1..Len(records) :
                 key.t = "str" /\ records[i].key = key.v}
  IN IF hits = {} THEN JUndef
     ELSE records[CHOOSE i \in hits : \A j \in hits : j <= i]

\* .filter(Boolean)
FilterBoolean(seq) == SelectSeq(seq, LAMBDA x : ~Falsy(x))

\* (cluster.bugKeys || []).map((key) => bugMap.get(key)).filter(Boolean)
ResolveBugs(cluster, records) ==
  FilterBoolean(MapSeq(LAMBDA key : BugMapGet(records, key),
                       Elements(Or(Get(cluster, "bugKeys"), EmptyArray))))

Cluster(cluster, records) ==
  [id |-> Get(cluster, "id"),
   name |-> Get(cluster, "name"),
   description |-> Get(cluster, "description"),
   rootCause |-> Get(cluster, "rootCause"),
   bugs |-> ResolveBugs(cluster, records),
   affectedComponents |-> Or(Get(cluster, "affectedComponents"), EmptyArray),
   severity |-> Or(Get(cluster, "severity"), Medium),
   suggestedFix |-> Get(cluster, "suggestedFix")]

ClusterThrows(cluster) ==
  \/ AccessThrows(cluster)
  \/ MapThrows(Or(Get(cluster, "bugKeys"), EmptyArray))

EscapePattern(pattern) ==
  [category |-> Or(Get(pattern, "category"), JStr("edge-case")),
   description |-> Get(pattern, "description"),
   bugKeys |-> Or(Get(pattern, "bugKeys"), EmptyArray),
   frequency |-> Or(Get(pattern, "frequency"), JNum(0))]

TestScenario(scenario) ==
  [name |-> Get(scenario, "name"),
   description |-> Get(scenario, "description"),
   type |-> Or(Get(scenario, "type"), JStr("integration")),
   targetBugs |-> Or(Get(scenario, "targetBugs"), EmptyArray),
   preconditions |-> Or(Get(scenario, "preconditions"), EmptyArray),
   steps |-> Or(Get(scenario, "steps"), EmptyArray),
   expectedOutcome |-> Get(scenario, "expectedOutcome"),
   priority |-> Or(Get(scenario, "priority"), Medium)]

TestingGap(gap) ==
  [area |-> Get(gap, "area"),
   description |-> Get(gap, "description"),
   currentCoverage |-> Or(Get(gap, "currentCoverage"), JStr("Unknown")),
   suggestedImprovement |-> Get(gap, "suggestedImprovement"),
   impactedBugCount |-> Or(Get(gap, "impactedBugCount"), JNum(0))]

DefectInjectionPoint(point) ==
  [phase |-> Or(Get(point, "phase"), JStr("coding")),
   description |-> Or(Get(point, "description"), EmptyString),
   bugKeys |-> Or(Get(point, "bugKeys"), EmptyArray),
   frequency |-> Or(Get(point, "frequency"), JNum(0)),
   preventionStrategy |-> Or(Get(point, "preventionStrategy"), EmptyString)]

ComponentRiskScore(score) ==
  [component |-> Or(Get(score, "component"), EmptyString),
   riskScore |-> Or(Get(score, "riskScore"), JNum(0)),
   escapeHistory |-> Or(Get(score, "escapeHistory"), JNum(0)),
   complexityFactor |-> Or(Get(score, "complexityFactor"), Medium),
   changeFrequency |-> Or(Get(score, "changeFrequency"), Medium),
   recommendation |-> Or(Get(score, "recommendation"), EmptyString)]

RegressionAnalysis(reg) ==
  [isRegression |-> Or(Get(reg, "isRegression"), JBool(FALSE)),
   bugKey |-> Or(Get(reg, "bugKey"), EmptyString),
   relatedBugKeys |-> Or(Get(reg, "relatedBugKeys"), EmptyArray),
   regressionType |-> Or(Get(reg, "regressionType"), JStr("similar")),
   likelyCause |-> Or(Get(reg, "likelyCause"), EmptyString)]

CustomerImpact(imp) ==
  [bugKey |-> Or(Get(imp, "bugKey"), EmptyString),
   impactLevel |-> Or(Get(imp, "impactLevel"), Medium),
   affectedUsers |-> Or(Get(imp, "affectedUsers"), JStr("some")),
   businessFunction |-> Or(Get(imp, "businessFunction"), EmptyString),
   workaroundAvailable |-> Or(Get(imp, "workaroundAvailable"), JBool(FALSE)),
   estimatedCost |-> Or(Get(imp, "estimatedCost"), Medium)]

TestDataRecommendation(rec) ==
  [category |-> Or(Get(rec, "category"), EmptyString),
   description |-> Or(Get(rec, "description"), EmptyString),
   dataPatterns |-> Or(Get(rec, "dataPatterns"), EmptyArray),
   edgeCases |-> Or(Get(rec, "edgeCases"), EmptyArray),
   targetBugs |-> Or(Get(rec, "targetBugs"), EmptyArray),
   priority |-> Or(Get(rec, "priority"), Medium)]

ProcessImprovement(imp) ==
  [area |-> Or(Get(imp, "area"), JStr("testing")),
   suggestion |-> Or(Get(imp, "suggestion"), EmptyString),
   rationale |-> Or(Get(imp, "rationale"), EmptyString),
   targetBugs |-> Or(Get(imp, "targetBugs"), EmptyArray),
   effort |-> Or(Get(imp, "effort"), Medium),
   impact |-> Or(Get(imp, "impact"), Medium)]

\* analysis.trendMetrics?.x || default
TrendMetrics(tm, records) ==
  [period |-> Or(Get(tm, "period"), JStr("Current Period")),
   totalBugs |-> Or(Get(tm, "totalBugs"), JNum(Len(records))),
   escapesByCategory |-> Or(Get(tm, "escapesByCategory"), EmptyObject),
   topComponents |-> Or(Get(tm, "topComponents"), EmptyArray),
   riskTrend |-> Or(Get(tm, "riskTrend"), JStr("stable")),
   comparisonToPrevious |-> Or(Get(tm, "comparisonToPrevious"), EmptyString)]

\* Variant of Recommendation that passes a bare string through, as the
\* string-list shape of the report did.
Recommendation_KeepsString(rec) ==
  IF rec.t = "str"
  THEN rec
  ELSE [text |-> Or(Get(rec, "text"), EmptyString),
        reasoning |-> Or(Get(rec, "reasoning"), EmptyString),
        targetBugs |-> Or(Get(rec, "targetBugs"), EmptyArray),
        priority |-> Or(Get(rec, "priority"), Medium)]

\* Both shapes of a recommendation element.
Recommendation(rec) ==
  IF rec.t = "str"
  THEN [text |-> rec,
        reasoning |-> EmptyString,
        targetBugs |-> EmptyArray,
        priority |-> Medium]
  ELSE [text |-> Or(Get(rec, "text"), EmptyString),
        reasoning |-> Or(Get(rec, "reasoning"), EmptyString),
        targetBugs |-> Or(Get(rec, "targetBugs"), EmptyArray),
        priority |-> Or(Get(rec, "priority"), Medium)]

RecommendationThrows(rec) == rec.t # "str" /\ AccessThrows(rec)

\* The collections that enrichAnalysis maps element by element.
MappedKeys ==
  {"rootCauseClusters", "escapePatterns", "suggestedTestScenarios",
   "testingGaps", "defectInjectionPoints", "componentRiskScores",
   "regressionAnalysis", "customerImpacts", "testDataRecommendations",
   "processImprovements", "recommendations"}

\* (analysis.k || [])
Collection(parsed, k) == Or(Get(parsed, k), EmptyArray)

\* (analysis.k || []).map(F)
MapCollection(F(_), parsed, k) == MapSeq(F, Elements(Collection(parsed, k)))

ElementThrows(k, e) ==
  IF k = "rootCauseClusters" THEN ClusterThrows(e)
  ELSE IF k = "recommendations" THEN RecommendationThrows(e)
  ELSE AccessThrows(e)

\* enrichAnalysis raises a TypeError.
EnrichThrows(parsed) ==
  \/ AccessThrows(parsed)
  \/ \E k \in MappedKeys :
       \/ MapThrows(Collection(parsed, k))
       \/ \E i \in 1..Len(Elements(Collection(parsed, k))) :
            ElementThrows(k, Elements(Collection(parsed, k))[i])

\* The object enrichAnalysis returns.
EnrichAnalysis(parsed, records) ==
  [rootCauseClusters |->
     MapCollection(LAMBDA c : Cluster(c, records), parsed,
                   "rootCauseClusters"),
   recurringIssues |-> Or(Get(parsed, "recurringIssues"), EmptyArray),
   componentHotspots |-> Or(Get(parsed, "componentHotspots"), EmptyArray),
   summary |-> Or(Get(parsed, "summary"), EmptyString),
   recommendations |-> MapCollection(Recommendation, parsed, "recommendations"),
   escapePatterns |-> MapCollection(EscapePattern, parsed, "escapePatterns"),
   suggestedTestScenarios |->
     MapCollection(TestScenario, parsed, "suggestedTestScenarios"),
   testingGaps |-> MapCollection(TestingGap, parsed, "testingGaps"),
   defectInjectionPoints |->
     MapCollection(DefectInjectionPoint, parsed, "defectInjectionPoints"),
   componentRiskScores |->
     MapCollection(ComponentRiskScore, parsed, "componentRiskScores"),
   regressionAnalysis |->
     MapCollection(RegressionAnalysis, parsed, "regressionAnalysis"),
   customerImpacts |-> MapCollection(CustomerImpact, parsed, "customerImpacts"),
   testDataRecommendations |->
     MapCollection(TestDataRecommendation, parsed, "testDataRecommendations"),
   processImprovements |->
     MapCollection(ProcessImprovement, parsed, "processImprovements"),
   trendMetrics |-> TrendMetrics(Get(parsed, "trendMetrics"), records)]

(***************************************************************************)
(* The reply text of the AI service, as a sequence of tokens: a code-fence *)
(* marker, a word, a newline, a space, or the text of one JSON document.   *)
(***************************************************************************)
Fence == [k |-> "fence"]
Word(w) == [k |-> "word", w |-> w]
Newline == [k |-> "nl"]
Space == [k |-> "sp"]
Doc(val) == [k |-> "doc", v |-> val]

IsSpace(tok) == tok.k \in {"nl", "sp"}

\* Number of whitespace tokens at the start of the text.
LeadingSpaces(text) ==
  LET stops == {i \in 1..Len(text) : ~IsSpace(text[i])}
  IN IF stops = {} THEN Len(text)
     ELSE (CHOOSE i \in stops : \A j \in stops : i <= j) - 1

\* Number of whitespace tokens at the end of the text.
TrailingSpaces(text) ==
  LET stops == {i \in 1..Len(text) : ~IsSpace(text[i])}
  IN IF stops = {} THEN Len(text)
     ELSE Len(text) - (CHOOSE i \in stops : \A j \in stops : j <= i)

DropFirst(text, n) == SubSeq(text, n + 1, Len(text))
DropLast(text, n) == SubSeq(text, 1, Len(text) - n)

\* String.prototype.trim
Trim(text) ==
  IF LeadingSpaces(text) = Len(text) THEN <<>>
  ELSE DropLast(DropFirst(text, LeadingSpaces(text)), TrailingSpaces(text))

\* jsonText.startsWith('```')
StartsWithFence(text) == Len(text) > 0 /\ text[1] = Fence

\* .replace(/^```(?:json)?\s*\n?/, '') on a text that starts with a fence
StripLeadingFence(text) ==
  LET afterFence == DropFirst(text, 1)
      afterTag == IF Len(afterFence) > 0 /\ afterFence[1] = Word("json")
                  THEN DropFirst(afterFence, 1) ELSE afterFence
  IN DropFirst(afterTag, LeadingSpaces(afterTag))

\* .replace(/\n?```\s*$/, '')
StripTrailingFence(text) ==
  LET body == DropLast(text, TrailingSpaces(text))
  IN IF Len(body) > 0 /\ body[Len(body)] = Fence
     THEN IF Len(body) > 1 /\ body[Len(body) - 1] = Newline
          THEN DropLast(body, 2) ELSE DropLast(body, 1)
     ELSE text

\* Lines 51-54 of analyzeBugs.
DeFence(text) ==
  IF StartsWithFence(Trim(text))
  THEN StripTrailingFence(StripLeadingFence(Trim(text)))
  ELSE Trim(text)

\* Variant of JsonParse that yields an empty object for text that is no
\* JSON document.
JsonParse_Lenient(text) ==
  IF Len(Trim(text)) = 1 /\ Trim(text)[1].k = "doc"
  THEN [ok |-> TRUE, value |-> Trim(text)[1].v]
  ELSE [ok |-> TRUE, value |-> EmptyObject]

\* JSON.parse: one document, surrounded by optional whitespace.
JsonParse(text) ==
  IF Len(Trim(text)) = 1 /\ Trim(text)[1].k = "doc"
  THEN [ok |-> TRUE, value |-> Trim(text)[1].v]
  ELSE [ok |-> FALSE, value |-> JUndef]

(***************************************************************************)
(* Inputs of the analysis pipeline.                                        *)
(***************************************************************************)
MaxBugs == 2       \* records of the input file
MaxKeys == 2       \* bug keys listed by one cluster
MaxElems == 2      \* elements of a multi-element collection

\* null of a nullable string attribute
NullAttr == "<null>"
\* A text of the given length; length 0 stands for null.
Text(name, length) == [text |-> name, length |-> length]

\* A record of the input file: the four attributes the mode filter and the
\* normalizer read, and the other attributes of the prompt fixed by them.
JiraBug(key, summary, status, isEscapeBug) ==
  [t |-> "bug", key |-> key, summary |-> summary, status |-> status,
   isEscapeBug |-> isEscapeBug,
   resolution |-> IF status = "Done" THEN "Fixed" ELSE NullAttr,
   priority |-> IF isEscapeBug THEN "High" ELSE NullAttr,
   failureType |-> IF isEscapeBug THEN "Positive Failure" ELSE NullAttr,
   customer |-> IF summary = "first" THEN "ACME" ELSE NullAttr,
   customerImpact |-> IF summary = "first" THEN "" ELSE "Outage",
   severity |-> IF status = "Open" THEN "S1" ELSE NullAttr,
   components |-> IF status = "Done" THEN <<"UI", "API">> ELSE <<>>,
   labels |-> IF isEscapeBug THEN <<"escape">> ELSE <<>>,
   description |-> IF summary = "first" THEN Text("long", 600)
                   ELSE IF summary = "second" THEN Text("", 0)
                   ELSE Text("short", 10),
   comments |-> IF summary = "first"
                THEN <<[body |-> Text("c1", 10)], [body |-> Text("c2", 300)],
                       [body |-> Text("c3", 200)]>>
                ELSE IF summary = "second" THEN <<[body |-> Text("c4", 5)]>>
                ELSE <<>>]

BugPool ==
  {JiraBug("BUG-1", "first", "Done", TRUE),
   JiraBug("BUG-2", "second", "Open", TRUE),
   JiraBug("BUG-1", "same key", "Done", FALSE)}

InputFiles == SeqsUpTo(BugPool, MaxBugs)

KeyValues == {JStr("BUG-1"), JStr("BUG-2"), JStr("BUG-9"), JNull}
KeyLists == {JArr(l) : l \in SeqsUpTo(KeyValues, MaxKeys)}

FieldValues ==
  {JNull, JNum(0), JNum(3), JBool(TRUE), JStr(""), JStr("high"),
   JStr("bogus"), EmptyArray, EmptyObject}

FieldsOf(k) ==
  CASE k = "rootCauseClusters" ->
         {"id", "name", "description", "rootCause", "bugKeys",
          "affectedComponents", "severity", "suggestedFix"}
    [] k = "recurringIssues" -> {"description", "frequency"}
    [] k = "componentHotspots" -> {"component", "bugCount", "severity", "trend"}
    [] k = "recommendations" -> {"text", "reasoning", "targetBugs", "priority"}
    [] k = "escapePatterns" -> {"category", "description", "bugKeys", "frequency"}
    [] k = "suggestedTestScenarios" ->
         {"name", "description", "type", "targetBugs", "preconditions",
          "steps", "expectedOutcome", "priority"}
    [] k = "testingGaps" ->
         {"area", "description", "currentCoverage", "suggestedImprovement",
          "impactedBugCount"}
    [] k = "defectInjectionPoints" ->
         {"phase", "description", "bugKeys", "frequency", "preventionStrategy"}
    [] k = "componentRiskScores" ->
         {"component", "riskScore", "escapeHistory", "complexityFactor",
          "changeFrequency", "recommendation"}
    [] k = "regressionAnalysis" ->
         {"isRegression", "bugKey", "relatedBugKeys", "regressionType",
          "likelyCause"}
    [] k = "customerImpacts" ->
         {"bugKey", "impactLevel", "affectedUsers", "businessFunction",
          "workaroundAvailable", "estimatedCost"}
    [] k = "testDataRecommendations" ->
         {"category", "description", "dataPatterns", "edgeCases",
          "targetBugs", "priority"}
    [] k = "processImprovements" ->
         {"area", "suggestion", "rationale", "targetBugs", "effort", "impact"}
    [] k = "trendMetrics" ->
         {"period", "totalBugs", "escapesByCategory", "topComponents",
          "riskTrend", "comparisonToPrevious"}
    [] OTHER -> {"description"}

\* Objects with one property set.
ObjectsOf(k) ==
  {With(EmptyObject, f, val) : f \in FieldsOf(k), val \in FieldValues}
    \cup (IF "bugKeys" \in FieldsOf(k)
          THEN {With(EmptyObject, "bugKeys", l) : l \in KeyLists} ELSE {})

FullRecommendation ==
  With(With(With(With(EmptyObject, "text", JStr("t")),
                 "reasoning", JStr("r")),
            "targetBugs", JArr(<<JStr("BUG-1")>>)),
       "priority", JStr("high"))

NonObjects == {JNull, JNum(0), JNum(5), JBool(TRUE), JStr("Add more tests")}

CoreElements ==
  {JStr("Add more tests"), JStr("b"), FullRecommendation, EmptyObject}

\* Values of one top-level property.
PropertyValues(k) ==
  NonObjects
    \cup ObjectsOf(k)
    \cup {EmptyObject, EmptyArray}
    \cup {JArr(<<e>>) : e \in NonObjects \cup ObjectsOf(k) \cup CoreElements}
    \cup {JArr(l) : l \in SeqsUpTo(CoreElements, MaxElems)}

\* Values the reply parses to.
ReplyValues ==
  NonObjects
    \cup {EmptyArray, EmptyObject}
    \cup UNION {{With(EmptyObject, k, val) : val \in PropertyValues(k)} :
                k \in TopKeys}

ScenarioReply ==
  With(EmptyObject, "rootCauseClusters",
       JArr(<<With(With(EmptyObject, "id", JStr("c1")), "bugKeys",
                   JArr(<<JStr("BUG-1"), JStr("BUG-9")>>))>>))

Fenced(tag, val) == <<Fence>> \o tag \o <<Newline, Doc(val), Newline, Fence>>

\* Text blocks of the reply.
ReplyTexts ==
  {<<Doc(val)>> : val \in ReplyValues}
    \cup {<<Word("not json")>>, <<>>, <<Fence>>,
          <<Word("Here is the analysis:"), Newline, Doc(EmptyObject)>>,
          <<Space, Doc(EmptyObject), Newline>>,
          <<Doc(EmptyObject), Doc(EmptyObject)>>,
          <<Fence, Word("json"), Newline, Word("not json"), Newline, Fence>>,
          <<Fence, Word("json"), Doc(ScenarioReply), Fence, Newline>>}
    \cup {Fenced(tag, val) :
            tag \in {<<>>, <<Word("json")>>, <<Word("javascript")>>},
            val \in {EmptyObject, ScenarioReply, JNull}}

AnalyzeIdle ==
  /\ aPc = "none"
  /\ mode = "escape"
  /\ inputBugs = <<>>
  /\ filteredBugs = <<>>
  /\ replyText = <<>>
  /\ jsonText = <<>>
  /\ analysis = JUndef
  /\ report = <<>>
  /\ rendered = <<>>
  /\ aError = "none"
  /\ exitCode = -1
  /\ replied = FALSE
  /\ prompt = <<>>
  /\ aiRequests = <<>>

\* The state of the retrieval engine before fetchBugs is called.
FetchNotStarted ==
  /\ options = [project |-> Undefined, jql |-> Undefined,
                filterId |-> Undefined, hasMax |-> FALSE, maxResults |-> 0]
  /\ jql = <<>>
  /\ maxResults = 0
  /\ bugs = <<>>
  /\ nextPageToken = NoToken
  /\ issueIds = <<>>
  /\ idx = 1
  /\ data = [nextPageToken |-> Undefined, isLast |-> FALSE]
  /\ returned = <<>>
  /\ error = "none"
  /\ searchCount = 0
  /\ filterCount = 0
  /\ okIds = <<>>
  /\ hydFailed = FALSE
  /\ listed = 0
  /\ searchFailed = FALSE
  /\ lastSeen = FALSE
  /\ sentToken = NoToken
  /\ sentSize = 0

\* No fetch call is in progress.
FetchIdle ==
  /\ pc = "none"
  /\ FetchNotStarted

\* No command-line entry point is running: fetchBugs is called directly.
CommandIdle ==
  /\ command = "api"
  /\ argv = [project |-> Undefined, jql |-> Undefined,
              filterId |-> Undefined, max |-> <<>>]
  /\ connCount = 0
  /\ connResult = "none"
  /\ cmdExit = -1
  /\ cmdMessage = "none"

MapperIdle ==
  /\ rawIssue = JUndef
  /\ mapped = <<>>

\* No concurrent calls are running.
ConcIdle ==
  /\ service = <<>>
  /\ tracker = <<>>
  /\ calls = <<>>
  /\ locals = <<>>

(***************************************************************************)
(* analyzeCommand and analyzeBugs.                                         *)
(***************************************************************************)
AnalyzeInit ==
  /\ ConcIdle
  /\ FetchIdle
  /\ CommandIdle
  /\ MapperIdle
  /\ aPc = "start"
  /\ mode \in {"escape", "all"}
  /\ inputBugs \in InputFiles
  /\ filteredBugs = <<>>
  /\ replyText = <<>>
  /\ jsonText = <<>>
  /\ analysis = JUndef
  /\ report = <<>>
  /\ rendered = <<>>
  /\ aError = "none"
  /\ exitCode = -1
  /\ replied = FALSE
  /\ prompt = <<>>
  /\ aiRequests = <<>>

(***************************************************************************)
(* The prompt of analyzeBugs.  A block is the list of its lines, a line a  *)
(* record of its label and the values printed after it; the blocks are     *)
(* joined with the separator line.                                         *)
(***************************************************************************)
DescriptionCap == 500
CommentCap == 200

\* x || fallback, for a nullable string
OrStr(x, fallback) == IF x = NullAttr \/ x = "" THEN fallback ELSE x

\* list.join(', ') || 'None'
JoinOrNone(list) == IF list = <<>> THEN <<"None">> ELSE list

\* text.substring(0, n)
Substring(text, n) == [text |-> text.text, length |-> Min(text.length, n)]

\* comments.slice(-2)
LastTwo(list) ==
  IF Len(list) <= 2 THEN list ELSE SubSeq(list, Len(list) - 1, Len(list))

\* The callback of formatBugsForAnalysis: the block of one record.
FormatBug(bug) ==
  <<[line |-> "title", key |-> bug.key, summary |-> bug.summary],
    [line |-> "Status", status |-> bug.status,
     resolution |-> OrStr(bug.resolution, "Unresolved"),
     priority |-> OrStr(bug.priority, "None")],
    [line |-> "Failure Type",
     failureType |-> OrStr(bug.failureType, "Unknown"),
     customer |-> OrStr(bug.customer, "Unknown")],
    [line |-> "Customer Impact",
     customerImpact |-> OrStr(bug.customerImpact, "Unknown"),
     severity |-> OrStr(bug.severity, "Unknown")],
    [line |-> "Components", names |-> JoinOrNone(bug.components)],
    [line |-> "Labels", names |-> JoinOrNone(bug.labels)]>>
  \o (IF bug.description.length > 0
      THEN <<[line |-> "Description",
              desc |-> Substring(bug.description, DescriptionCap),
              ellipsis |-> bug.description.length > DescriptionCap]>>
      ELSE <<>>)
  \o (IF Len(bug.comments) > 0
      THEN <<[line |-> "Recent comments",
              bodies |-> [i \in 1..Len(LastTwo(bug.comments)) |->
                            Substring(LastTwo(bug.comments)[i].body,
                                      CommentCap)]]>>
      ELSE <<>>)

\* Variant of FormatBugsForAnalysis: the failure-type/customer line is
\* written in escape mode only.
FormatBugsForAnalysis_ByMode(records) ==
  [i \in 1..Len(records) |->
     IF mode = "escape" THEN FormatBug(records[i])
     ELSE SelectSeq(FormatBug(records[i]),
                    LAMBDA l : l.line # "Failure Type")]

\* formatBugsForAnalysis
FormatBugsForAnalysis(records) ==
  [i \in 1..Len(records) |-> FormatBug(records[i])]

CountWhere(records, Test(_)) == Len(SelectSeq(records, Test))

\* buildEscapeAnalysisPrompt
BuildEscapeAnalysisPrompt(records, bugsContext) ==
  [template |-> "escape", count |-> Len(records), context |-> bugsContext]

\* buildAllBugsAnalysisPrompt
BuildAllBugsAnalysisPrompt(records, bugsContext) ==
  [template |-> "all", count |-> Len(records), context |-> bugsContext,
   positive |-> CountWhere(records,
                           LAMBDA b : b.failureType = "Positive Failure"),
   negative |-> CountWhere(records,
                           LAMBDA b : b.failureType = "Negative Failure"),
   open |-> CountWhere(records, LAMBDA b : b.status = "Open")]

\* The prompt analyzeBugs builds for a mode.
BuildPrompt(records, m) ==
  IF m = "escape"
  THEN BuildEscapeAnalysisPrompt(records, FormatBugsForAnalysis(records))
  ELSE BuildAllBugsAnalysisPrompt(records, FormatBugsForAnalysis(records))

\* The mode filter of analyzeCommand.
FilterByMode(bugList, m) ==
  IF m = "escape"
  THEN SelectSeq(bugList, LAMBDA b : b.isEscapeBug /\ b.status # "Open")
  ELSE bugList

\* Variant of NoBugsRemain: the test is missing.
NoBugsRemain_Never(bugList) == FALSE

\* if (filteredBugs.length === 0) { spinner.fail(...); process.exit(1); }
NoBugsRemain(bugList) == Len(bugList) = 0

\* analyzeCommand up to the request sent by analyzeBugs.
AnalyzeCommand ==
  /\ aPc = "start"
  /\ filteredBugs' = FilterByMode(inputBugs, mode)
  /\ IF NoBugsRemain(filteredBugs')
     THEN /\ aPc' = "exit"
          /\ exitCode' = 1
          /\ UNCHANGED <<prompt, aiRequests>>
     ELSE /\ aPc' = "aiWait"
          /\ exitCode' = exitCode
          /\ prompt' = <<BuildPrompt(filteredBugs', mode)>>
          /\ aiRequests' = Append(aiRequests, filteredBugs')
  /\ UNCHANGED <<mode, inputBugs, replyText, jsonText, analysis, report,
                 rendered, aError, replied>>
  /\ UNCHANGED <<fetchVars, commandVars, mapperVars, concVars>>

\* The catch block of analyzeCommand.
CommandFails(err) ==
  /\ aError' = err
  /\ aPc' = "exit"
  /\ exitCode' = 1

\* JSON.parse raised a SyntaxError.
OnParseError ==
  /\ CommandFails("SyntaxError")
  /\ UNCHANGED <<analysis, report>>

\* The request to the AI service fails, or its first content block is no
\* text block.
AiFailure ==
  /\ aPc = "aiWait"
  /\ \E err \in {"ApiError", "Unexpected response type from Claude"} :
       CommandFails(err)
  /\ UNCHANGED <<mode, inputBugs, filteredBugs, replyText, jsonText, analysis,
                 report, rendered, replied, prompt, aiRequests>>
  /\ UNCHANGED <<fetchVars, commandVars, mapperVars, concVars>>

\* Variant of BugsAfterEnrich: the normalizer stamps the records it was
\* given.
BugsAfterEnrich_Stamped(records) ==
  [i \in 1..Len(records) |-> [records[i] EXCEPT !.summary = "analysed"]]

\* The bugs argument after enrichAnalysis: the method reads it (bugs.map
\* for the key map, bugs.length) and never writes to it or to a record.
BugsAfterEnrich(records) == records

\* The text reply arrives: de-fencing, JSON.parse, enrichAnalysis.
AiResponse ==
  /\ aPc = "aiWait"
  /\ replied' = TRUE
  /\ \E text \in ReplyTexts :
       /\ replyText' = text
       /\ jsonText' = DeFence(text)
       /\ IF ~JsonParse(jsonText').ok
          THEN OnParseError /\ filteredBugs' = filteredBugs
          ELSE /\ analysis' = JsonParse(jsonText').value
               /\ filteredBugs' = BugsAfterEnrich(filteredBugs)
               /\ IF EnrichThrows(analysis')
                  THEN /\ CommandFails("TypeError")
                       /\ report' = report
                  ELSE /\ report' = <<EnrichAnalysis(analysis', filteredBugs)>>
                       /\ aPc' = "analysed"
                       /\ UNCHANGED <<aError, exitCode>>
  /\ UNCHANGED <<mode, inputBugs, rendered, prompt, aiRequests>>
  /\ UNCHANGED <<fetchVars, commandVars, mapperVars, concVars>>

\* outputResults and the return of analyzeCommand.
OutputResults ==
  /\ aPc = "analysed"
  /\ rendered' = report
  /\ aPc' = "returned"
  /\ exitCode' = 0
  /\ UNCHANGED <<mode, inputBugs, filteredBugs, replyText, jsonText, analysis,
                 report, aError, replied, prompt, aiRequests>>
  /\ UNCHANGED <<fetchVars, commandVars, mapperVars, concVars>>

AnalyzeNext ==
  \/ AnalyzeCommand
  \/ AiFailure
  \/ AiResponse
  \/ OutputResults

SpecAnalyze == AnalyzeInit /\ [][AnalyzeNext]_vars

(***************************************************************************)
(* The fetch and run commands: option parsing of index.ts, the pre-check   *)
(* testConnection, the call of fetchBugs and the end of the command.       *)
(***************************************************************************)
RECURSIVE Digits(_)
\* The decimal numeral of a natural number, as typed after --max.
Digits(n) == IF n < 10 THEN <<n>> ELSE Append(Digits(n \div 10), n % 10)

RECURSIVE ParseInt(_)
\* parseInt(options.max, 10) of a decimal numeral.
ParseInt(ds) ==
  IF Len(ds) = 0 THEN 0
  ELSE 10 * ParseInt(SubSeq(ds, 1, Len(ds) - 1)) + ds[Len(ds)]

\* Values of --max: the default '100' of the option and an explicit one.
MaxArgs == {Digits(DefaultMaxResults), Digits(MaxN)}

ArgSet ==
  [project : {Undefined, "PROJ"},
   jql : {Undefined, "Q"},
   filterId : {Undefined, "F1"},
   max : MaxArgs]

\* The query that the fetch action of index.ts builds from --project when
\* neither --jql nor --filter-id is given (the other conditions absent).
IndexJql(a) ==
  IF ~TruthyStr(a.jql) /\ ~TruthyStr(a.filterId)
  THEN IF TruthyStr(a.project)
       THEN "Type = Bug AND project = \"PROJ\" ORDER BY created DESC"
       ELSE "Type = Bug ORDER BY created DESC"
  ELSE a.jql

\* The argument of fetchBugs in fetchCommand.
FetchCommandOptions(a) ==
  [project |-> a.project, jql |-> IndexJql(a), filterId |-> Undefined,
   hasMax |-> TRUE, maxResults |-> ParseInt(a.max)]

\* The argument of fetchBugs in runCommand.
RunCommandOptions(a) ==
  [project |-> a.project, jql |-> a.jql, filterId |-> a.filterId,
   hasMax |-> TRUE, maxResults |-> ParseInt(a.max)]

CommandOptions ==
  IF command = "fetch" THEN FetchCommandOptions(argv)
  ELSE RunCommandOptions(argv)

CommandInit ==
  /\ ConcIdle
  /\ command \in {"fetch", "run"}
  /\ argv \in ArgSet
  /\ connCount = 0
  /\ connResult = "none"
  /\ cmdExit = -1
  /\ cmdMessage = "none"
  /\ pc = "cmdStart"
  /\ FetchNotStarted
  /\ AnalyzeIdle
  /\ MapperIdle

\* The command calls jiraService.testConnection().
TestConnection ==
  /\ pc = "cmdStart"
  /\ connCount' = connCount + 1
  /\ pc' = "connWait"
  /\ UNCHANGED <<command, argv, connResult, cmdExit, cmdMessage>>
  /\ UNCHANGED <<sentSize, sentToken, options, jql, maxResults, bugs, nextPageToken,
                 issueIds, idx, data, returned, error, searchCount,
                 filterCount, okIds, hydFailed, listed, searchFailed,
                 lastSeen>>
  /\ UNCHANGED <<analyzeVars, mapperVars, concVars>>

\* Variant of NotConnected that goes on to fetchBugs.
NotConnected_Proceeds ==
  /\ pc' = "start"
  /\ options' = CommandOptions
  /\ UNCHANGED <<cmdExit, cmdMessage>>

\* if (!connected) { spinner.fail(...); process.exit(1); }
NotConnected ==
  /\ pc' = "exited"
  /\ cmdExit' = 1
  /\ cmdMessage' = "Failed to connect to Jira"
  /\ options' = options

\* testConnection returns; when connected the command calls fetchBugs.
ConnectionResponse ==
  /\ pc = "connWait"
  /\ \E connected \in BOOLEAN :
       IF connected
       THEN /\ connResult' = "ok"
            /\ pc' = "start"
            /\ options' = CommandOptions
            /\ UNCHANGED <<cmdExit, cmdMessage>>
       ELSE /\ connResult' = "failed"
            /\ NotConnected
  /\ UNCHANGED <<command, argv, connCount>>
  /\ UNCHANGED <<sentSize, sentToken, jql, maxResults, bugs, nextPageToken,
                 issueIds, idx, data, returned, error, searchCount,
                 filterCount, okIds, hydFailed, listed, searchFailed,
                 lastSeen>>
  /\ UNCHANGED <<analyzeVars, mapperVars, concVars>>

\* fetchBugs has returned or thrown: the rest of the command, up to the
\* hand-over to the analysis in runCommand.
CommandEnds ==
  /\ command \in {"fetch", "run"}
  /\ pc \in {"done", "failed"}
  /\ IF pc = "failed"
     THEN /\ pc' = "exited"
          /\ cmdExit' = 1
          /\ cmdMessage' = IF command = "fetch" THEN "Failed to fetch bugs"
                            ELSE "Pipeline failed"
     ELSE IF command = "fetch"
          THEN /\ pc' = "exited"
               /\ cmdExit' = 0
               /\ cmdMessage' = "Fetched bugs from Jira"
          ELSE IF Len(returned) = 0
               THEN /\ pc' = "exited"
                    /\ cmdExit' = 0
                    /\ cmdMessage' = "No bugs found matching your criteria."
               ELSE /\ pc' = "analysis"
                    /\ cmdExit' = cmdExit
                    /\ cmdMessage' = "Fetched bugs"
  /\ UNCHANGED <<command, argv, connCount, connResult>>
  /\ UNCHANGED <<sentSize, sentToken, options, jql, maxResults, bugs, nextPageToken,
                 issueIds, idx, data, returned, error, searchCount,
                 filterCount, okIds, hydFailed, listed, searchFailed,
                 lastSeen>>
  /\ UNCHANGED <<analyzeVars, mapperVars, concVars>>

\* runCommand, steps 2 and 3: the records are cached and passed to
\* analyzeBugs.
RunAnalyzeBugs ==
  /\ command = "run"
  /\ pc = "analysis"
  /\ aiRequests' = Append(aiRequests, returned)
  /\ pc' = "analysisWait"
  /\ UNCHANGED <<aPc, mode, inputBugs, filteredBugs, replyText, jsonText,
                 analysis, report, rendered, aError, exitCode, replied,
                 prompt>>
  /\ UNCHANGED commandVars
  /\ UNCHANGED <<sentSize, sentToken, options, jql, maxResults, bugs, nextPageToken,
                 issueIds, idx, data, returned, error, searchCount,
                 filterCount, okIds, hydFailed, listed, searchFailed,
                 lastSeen>>
  /\ UNCHANGED <<mapperVars, concVars>>

\* runCommand, step 4 and the catch block: the analysis is rendered and the
\* command returns, or analyzeBugs threw and the command exits with 1.
RunAnalysisEnds ==
  /\ command = "run"
  /\ pc = "analysisWait"
  /\ pc' = "exited"
  /\ \E ok \in BOOLEAN :
       IF ok THEN cmdExit' = 0 /\ cmdMessage' = "Analysis complete"
       ELSE cmdExit' = 1 /\ cmdMessage' = "Pipeline failed"
  /\ UNCHANGED <<command, argv, connCount, connResult>>
  /\ UNCHANGED <<sentSize, sentToken, options, jql, maxResults, bugs, nextPageToken,
                 issueIds, idx, data, returned, error, searchCount,
                 filterCount, okIds, hydFailed, listed, searchFailed,
                 lastSeen>>
  /\ UNCHANGED <<analyzeVars, mapperVars, concVars>>

(***************************************************************************)
(* The record mapper: mapIssueToBug, extractTextFromADF and                *)
(* extractCustomFields, on raw issues as the tracker's JSON gives them.    *)
(***************************************************************************)
MaxDepth == 2      \* nesting depth of a rich-document node
MaxNodes == 2      \* nodes of one content list

CustomKeys ==
  {"customfield_10165", "customfield_10164", "customfield_10066",
   "customfield_10049", "customfield_10268", "customfield_10001"}

IssueKeys ==
  {"id", "key", "fields", "summary", "description", "status", "resolution",
   "priority", "name", "components", "labels", "created", "updated",
   "reporter", "assignee", "displayName", "comment", "comments", "author",
   "body", "type", "text", "content", "value"} \cup CustomKeys

EmptyIssueObject == JObj([k \in IssueKeys |-> JUndef])
Obj1(k, val) == With(EmptyIssueObject, k, val)

\* A string built by join: the concatenation of its pieces.
JText(pieces) == IF pieces = <<>> THEN JStr("") ELSE [t |-> "text", v |-> pieces]

RECURSIVE Join(_, _)
\* Array.prototype.join: texts is a list of piece lists, sep a piece list.
Join(texts, sep) ==
  IF Len(texts) = 0 THEN <<>>
  ELSE IF Len(texts) = 1 THEN texts[1]
  ELSE texts[1] \o sep \o Join(Tail(texts), sep)

\* node.type === 'text'
IsTextNode(node) == Get(node, "type").t = "str" /\ Get(node, "type").v = "text"

\* node.text || ''
TextOf(node) ==
  IF Falsy(Get(node, "text")) THEN <<>>
  ELSE IF Get(node, "text").t = "str" THEN <<Get(node, "text").v>>
  ELSE <<Get(node, "text")>>

\* Variant of ExtractText that looks one level below a node only.
ExtractText_OneLevel(node) ==
  IF IsTextNode(node) THEN TextOf(node)
  ELSE IF Get(node, "content").t = "arr"
       THEN LET c == Get(node, "content").v
            IN Join([i \in 1..Len(c) |->
                       IF IsTextNode(c[i]) THEN TextOf(c[i]) ELSE <<>>], <<>>)
       ELSE <<>>

RECURSIVE ExtractText(_)
\* extractText of extractTextFromADF
ExtractText(node) ==
  IF IsTextNode(node) THEN TextOf(node)
  ELSE IF Get(node, "content").t = "arr"
       THEN LET c == Get(node, "content").v
            IN Join([i \in 1..Len(c) |-> ExtractText(c[i])], <<>>)
       ELSE <<>>

RECURSIVE ExtractTextThrows(_)
\* extractText raises a TypeError on a null node, at any depth.
ExtractTextThrows(node) ==
  \/ AccessThrows(node)
  \/ /\ ~IsTextNode(node)
     /\ Get(node, "content").t = "arr"
     /\ \E i \in 1..Len(Get(node, "content").v) :
          ExtractTextThrows(Get(node, "content").v[i])

\* extractTextFromADF raises when content is truthy and no list, or when a
\* node of it does.
ExtractTextFromADFThrows(adf) ==
  /\ ~Falsy(adf)
  /\ ~Falsy(Get(adf, "content"))
  /\ \/ MapThrows(Get(adf, "content"))
     \/ \E i \in 1..Len(Get(adf, "content").v) :
          ExtractTextThrows(Get(adf, "content").v[i])

\* extractTextFromADF
ExtractTextFromADF(adf) ==
  IF Falsy(adf) \/ Falsy(Get(adf, "content")) THEN JStr("")
  ELSE LET c == Get(adf, "content").v
       IN JText(Join([i \in 1..Len(c) |-> ExtractText(c[i])], <<"\n">>))

\* key.startsWith('customfield_'), on the property names of the model.
StartsWithCustomfield(k) == k \in CustomKeys

\* Variant of KeepsValue: only truthy values are kept.
KeepsValue_Truthy(value) == ~Falsy(value)

\* value !== null, for a property the object has.
KeepsValue(value) == value.t \notin {"undefined", "null"}

\* extractCustomFields
ExtractCustomFields(fields) ==
  [k \in {k \in IssueKeys : /\ StartsWithCustomfield(k)
                            /\ KeepsValue(Get(fields, k))}
     |-> Get(fields, k)]

\* typeof x === 'object'
TypeofObject(x) == x.t \in {"obj", "arr", "null"}

\* The callback that maps one comment.
MapComment(c) ==
  [id |-> Get(c, "id"),
   author |-> Or(Get(Get(c, "author"), "displayName"), JStr("Unknown")),
   body |-> IF Get(c, "body").t = "str" THEN Get(c, "body")
            ELSE ExtractTextFromADF(Get(c, "body")),
   created |-> Get(c, "created")]

MapCommentThrows(c) ==
  \/ AccessThrows(c)
  \/ (Get(c, "body").t # "str" /\ ExtractTextFromADFThrows(Get(c, "body")))

\* issue.fields || {}
FieldsOfIssue(issue) == Or(Get(issue, "fields"), EmptyIssueObject)

\* fields.comment?.comments || []
CommentsOf(fields) == Or(Get(Get(fields, "comment"), "comments"), EmptyArray)

\* fields.description, flattened when it is a document.
DescriptionOf(fields) ==
  LET description == Get(fields, "description")
  IN IF ~Falsy(description) /\ TypeofObject(description)
     THEN ExtractTextFromADF(description)
     ELSE description

\* The cases in which mapIssueToBug raises a TypeError.
MapIssueToBugThrows(issue) ==
  \/ AccessThrows(issue)
  \/ LET fields == FieldsOfIssue(issue)
         description == Get(fields, "description")
         components == Or(Get(fields, "components"), EmptyArray)
     IN \/ MapThrows(CommentsOf(fields))
        \/ \E i \in 1..Len(Elements(CommentsOf(fields))) :
             MapCommentThrows(CommentsOf(fields).v[i])
        \/ /\ ~Falsy(description) /\ TypeofObject(description)
           /\ ExtractTextFromADFThrows(description)
        \/ MapThrows(components)
        \/ \E i \in 1..Len(Elements(components)) :
             AccessThrows(components.v[i])

\* mapIssueToBug, all attributes of the record.
MapIssueToBugRecord(issue) ==
  LET fields == FieldsOfIssue(issue)
      name(x) == Get(Get(fields, x), "name")
      displayName(x) == Get(Get(fields, x), "displayName")
      value(x) == Get(Get(fields, x), "value")
  IN [key |-> Get(issue, "key"),
      id |-> Get(issue, "id"),
      summary |-> Or(Get(fields, "summary"), JStr("")),
      description |-> Or(DescriptionOf(fields), JNull),
      status |-> Or(name("status"), JStr("Unknown")),
      resolution |-> Or(name("resolution"), JNull),
      priority |-> Or(name("priority"), JNull),
      components |->
        MapSeq(LAMBDA c : Get(c, "name"),
               Elements(Or(Get(fields, "components"), EmptyArray))),
      labels |-> Or(Get(fields, "labels"), EmptyArray),
      created |-> Get(fields, "created"),
      updated |-> Get(fields, "updated"),
      reporter |-> Or(displayName("reporter"), JNull),
      assignee |-> Or(displayName("assignee"), JNull),
      comments |-> MapSeq(MapComment, Elements(CommentsOf(fields))),
      failureType |-> Or(value("customfield_10165"), JNull),
      isEscapeBug |-> (value("customfield_10164").t = "str"
                       /\ value("customfield_10164").v = "Yes"),
      customerImpact |-> Or(value("customfield_10066"), JNull),
      customer |-> Or(value("customfield_10049"), JNull),
      severity |-> Or(value("customfield_10268"), JNull),
      customFields |-> ExtractCustomFields(fields)]

(***************************************************************************)
(* Raw issues handed to the mapper.                                        *)
(***************************************************************************)
TextNode(txt) == With(Obj1("type", JStr("text")), "text", JStr(txt))
Node(kind, children) == With(Obj1("type", JStr(kind)), "content", JArr(children))

Leaves ==
  {JNull, TextNode("a"), TextNode("b"), Obj1("type", JStr("text")),
   Obj1("type", JStr("hardBreak"))}

RECURSIVE Nest(_, _)
\* A node wrapped k times in a paragraph.
Nest(node, k) == IF k = 0 THEN node ELSE Node("paragraph", <<Nest(node, k - 1)>>)

TopNodes == {Nest(l, k) : l \in Leaves, k \in 0..MaxDepth}

Documents ==
  {Node("doc", <<n>>) : n \in TopNodes}
    \cup {Node("doc", l) : l \in SeqsUpTo(Leaves, MaxNodes)}
    \cup {Node("doc", <<Node("paragraph", l)>>) : l \in SeqsUpTo(Leaves, MaxNodes)}
    \cup {Obj1("type", JStr("doc")),
          With(Obj1("type", JStr("doc")), "content", JStr("not a list")),
          With(Obj1("type", JStr("doc")), "content", EmptyIssueObject),
          With(Obj1("type", JStr("doc")), "content", JNull)}

Named(n) == Obj1("name", JStr(n))

RawComments ==
  {JNull, EmptyIssueObject,
   With(With(With(Obj1("id", JStr("c1")), "author",
                  Obj1("displayName", JStr("Ann"))),
             "body", JStr("plain")), "created", JStr("2025-01-01")),
   With(Obj1("id", JStr("c2")), "author", JNull)}
    \cup {Obj1("body", doc) : doc \in Documents}

\* Values of one property of the fields object.
FieldValuesOf(k) ==
  CASE k = "summary" -> {JNull, JStr(""), JStr("s")}
    [] k = "description" ->
         {JNull, JStr(""), JStr("d"), JNum(5), EmptyArray} \cup Documents
    [] k \in {"status", "resolution", "priority"} ->
         {JNull, EmptyIssueObject, Named("Done"), JStr("x")}
    [] k \in {"reporter", "assignee"} ->
         {JNull, EmptyIssueObject, Obj1("displayName", JStr("Ann"))}
    [] k = "components" ->
         {JNull, EmptyArray, JStr("x"), EmptyIssueObject,
          JArr(<<Named("UI")>>), JArr(<<JNull>>),
          JArr(<<Named("UI"), JNull>>), JArr(<<Named("UI"), Named("DB")>>),
          JArr(<<EmptyIssueObject>>)}
    [] k = "labels" -> {JNull, EmptyArray, JArr(<<JStr("l")>>)}
    [] k = "comment" ->
         {JNull, EmptyIssueObject, Obj1("comments", JNull),
          Obj1("comments", JStr("x")), Obj1("comments", EmptyArray)}
           \cup {Obj1("comments", JArr(<<c>>)) : c \in RawComments}
    [] k \in {"created", "updated"} -> {JStr("2025-01-01")}
    [] OTHER -> \* custom fields
         {JNull, Obj1("value", JStr("Yes")), Obj1("value", JStr("No")),
          Obj1("value", JNull), JStr("raw"), JNum(0)}

FieldNames ==
  {"summary", "description", "status", "resolution", "priority", "reporter",
   "assignee", "components", "labels", "comment", "created", "updated"}
    \cup CustomKeys

\* A fully populated fields object.
GoodFields ==
  LET set(o, k, val) == With(o, k, val)
  IN set(set(set(set(set(set(EmptyIssueObject,
       "summary", JStr("s")),
       "status", Named("Done")),
       "components", JArr(<<Named("UI")>>)),
       "customfield_10164", Obj1("value", JStr("Yes"))),
       "customfield_10165", Obj1("value", JStr("Escape"))),
       "customfield_10001", JNull)

RawFields ==
  {JUndef, JNull, JStr("x"), EmptyIssueObject, GoodFields}
    \cup UNION {{Obj1(k, val) : val \in FieldValuesOf(k)} : k \in FieldNames}
    \cup UNION {{With(GoodFields, k, val) : val \in FieldValuesOf(k)} :
                k \in CustomKeys}

IssueWith(fields) ==
  With(With(Obj1("id", JStr("10001")), "key", JStr("BUG-1")), "fields", fields)

RawIssues == {JNull, EmptyIssueObject} \cup {IssueWith(f) : f \in RawFields}

MapperInit ==
  /\ ConcIdle
  /\ rawIssue \in RawIssues
  /\ mapped = <<>>
  /\ pc = "none"
  /\ FetchNotStarted
  /\ CommandIdle
  /\ AnalyzeIdle

\* One call of mapIssueToBug.
MapIssue ==
  /\ mapped = <<>>
  /\ mapped' = IF MapIssueToBugThrows(rawIssue)
               THEN <<[ok |-> FALSE, error |-> "TypeError"]>>
               ELSE <<[ok |-> TRUE, bug |-> MapIssueToBugRecord(rawIssue)]>>
  /\ UNCHANGED rawIssue
  /\ UNCHANGED <<fetchVars, analyzeVars, commandVars, concVars>>

MapperNext == MapIssue

SpecMapper == MapperInit /\ [][MapperNext]_vars

(***************************************************************************)
(* Two fetchBugsWithJqlEndpoint calls on one JiraService instance.  The    *)
(* instance holds config and client; bugs and nextPageToken are declared   *)
(* inside the method.  Every await is a point where the other call runs.   *)
(***************************************************************************)
Calls == {1, 2}

\* A continuation token names the query and the page it was handed out
\* with; NullToken is the null the loop starts with.
NullToken == [q |-> 0, k |-> 0]
TruthyToken(t) == t # NullToken

FailedPage == [fail |-> TRUE, ids |-> <<>>, hasToken |-> FALSE, isLast |-> FALSE]
FirstPages ==
  [fail : {FALSE}, ids : {<<1>>, <<1, 2>>}, hasToken : BOOLEAN,
   isLast : BOOLEAN] \cup {FailedPage}
SecondPages ==
  {[fail |-> FALSE, ids |-> <<2>>, hasToken |-> FALSE, isLast |-> TRUE],
   FailedPage}
ConcScripts == {<<p1, p2>> : p1 \in FirstPages, p2 \in SecondPages}

\* The response of the tracker to a search request of query q carrying
\* token t: the first page of q, or the page after the one t came with.
PageFor(q, t) ==
  LET pages == IF TruthyToken(t) THEN tracker.pages[t.q] ELSE tracker.pages[q]
      k == IF TruthyToken(t) THEN t.k + 1 ELSE 1
  IN IF k <= Len(pages) THEN pages[k] ELSE FailedPage
TokenFor(q, t) ==
  IF TruthyToken(t) THEN [q |-> t.q, k |-> t.k + 1] ELSE [q |-> q, k |-> 1]

NewCall(n) ==
  [pc |-> "start", maxResults |-> n, sent |-> NullToken, auth |-> "none",
   issueIds |-> <<>>, idx |-> 1,
   data |-> [nextPageToken |-> NullToken, isLast |-> FALSE],
   returned |-> <<>>, error |-> "none"]

ConcInit ==
  /\ FetchIdle
  /\ AnalyzeIdle
  /\ CommandIdle
  /\ MapperIdle
  /\ service = [config |-> "credentials"]
  /\ tracker \in [pages : [Calls -> ConcScripts], bad : {{}, {1}}]
  /\ calls \in [Calls -> {NewCall(n) : n \in {1, MaxN}}]
  /\ locals = [c \in Calls |-> [bugs |-> <<>>, nextPageToken |-> NullToken]]

\* Variant of Cell: bugs and nextPageToken are fields of the instance, one
\* cell for all calls.
Cell_Shared(c) == 1

\* const bugs = []; let nextPageToken = null; are declared in the method
\* body: every call has its own.
Cell(c) == c

\* Entry of fetchBugsWithJqlEndpoint: the declarations of bugs and
\* nextPageToken.
CallStart(c) ==
  /\ calls[c].pc = "start"
  /\ locals' = [locals EXCEPT ![Cell(c)] =
                  [bugs |-> <<>>, nextPageToken |-> NullToken]]
  /\ calls' = [calls EXCEPT ![c].pc = "loop"]
  /\ UNCHANGED <<service, tracker>>
  /\ UNCHANGED <<fetchVars, analyzeVars, commandVars, mapperVars>>

\* The search request: the URL carries the token when it is truthy, the
\* header carries the credentials of the instance.
CallSearchRequest(c) ==
  /\ calls[c].pc = "loop"
  /\ calls' = [calls EXCEPT ![c].pc = "searchWait",
                            ![c].sent = locals[Cell(c)].nextPageToken,
                            ![c].auth = service.config]
  /\ UNCHANGED <<service, tracker, locals>>
  /\ UNCHANGED <<fetchVars, analyzeVars, commandVars, mapperVars>>

\* The search response: a failure status throws, a page is decoded.
CallSearchResponse(c) ==
  /\ calls[c].pc = "searchWait"
  /\ LET page == PageFor(c, calls[c].sent) IN
       IF page.fail
       THEN calls' = [calls EXCEPT ![c].pc = "failed",
                                   ![c].error = "Search failed"]
       ELSE calls' = [calls EXCEPT
              ![c].pc = "forLoop",
              ![c].issueIds = page.ids,
              ![c].idx = 1,
              ![c].data = [nextPageToken |->
                             IF page.hasToken
                             THEN TokenFor(c, calls[c].sent)
                             ELSE NullToken,
                           isLast |-> page.isLast]]
  /\ UNCHANGED <<service, tracker, locals>>
  /\ UNCHANGED <<fetchVars, analyzeVars, commandVars, mapperVars>>

CallForContinues(c) ==
  /\ calls[c].idx <= Len(calls[c].issueIds)
  /\ ~(Len(locals[Cell(c)].bugs) >= calls[c].maxResults)

\* The hydration request of the next id.
CallHydrateRequest(c) ==
  /\ calls[c].pc = "forLoop"
  /\ CallForContinues(c)
  /\ calls' = [calls EXCEPT ![c].pc = "hydrateWait",
                            ![c].auth = service.config]
  /\ UNCHANGED <<service, tracker, locals>>
  /\ UNCHANGED <<fetchVars, analyzeVars, commandVars, mapperVars>>

\* The hydration response: the record is pushed unless the request failed.
CallHydrateResponse(c) ==
  /\ calls[c].pc = "hydrateWait"
  /\ LET id == calls[c].issueIds[calls[c].idx]
         outcome == IF id \in tracker.bad THEN "status" ELSE "ok"
     IN locals' = [locals EXCEPT ![Cell(c)].bugs =
                     PushIssue(@, FetchIssueById(id, outcome))]
  /\ calls' = [calls EXCEPT ![c].pc = "forLoop", ![c].idx = @ + 1]
  /\ UNCHANGED <<service, tracker>>
  /\ UNCHANGED <<fetchVars, analyzeVars, commandVars, mapperVars>>

\* End of the for-loop: token update, break test, while test, return.
CallPageDone(c) ==
  /\ calls[c].pc = "forLoop"
  /\ ~CallForContinues(c)
  /\ locals' = [locals EXCEPT ![Cell(c)].nextPageToken =
                  calls[c].data.nextPageToken]
  /\ IF \/ calls[c].data.isLast
        \/ Len(locals[Cell(c)].bugs) >= calls[c].maxResults
        \/ ~TruthyToken(calls[c].data.nextPageToken)
     THEN calls' = [calls EXCEPT ![c].pc = "done",
                                 ![c].returned = locals[Cell(c)].bugs]
     ELSE calls' = [calls EXCEPT ![c].pc = "loop"]
  /\ UNCHANGED <<service, tracker>>
  /\ UNCHANGED <<fetchVars, analyzeVars, commandVars, mapperVars>>

ConcNext ==
  \E c \in Calls :
    \/ CallStart(c)
    \/ CallSearchRequest(c)
    \/ CallSearchResponse(c)
    \/ CallHydrateRequest(c)
    \/ CallHydrateResponse(c)
    \/ CallPageDone(c)

SpecConcurrent == ConcInit /\ [][ConcNext]_vars

Init == FetchInit /\ AnalyzeIdle /\ CommandIdle /\ MapperIdle /\ ConcIdle

Next ==
  \/ FetchBugs
  \/ FilterResponse
  \/ SearchRequest
  \/ SearchResponse
  \/ HydrateRequest
  \/ HydrateResponse
  \/ PageDone

Spec == Init /\ [][Next]_vars

\* A fetch call against a tracker that never stops answering; every request
\* eventually receives its response.
LiveNext ==
  \/ FetchBugs
  \/ SearchRequestUnbounded
  \/ SearchResponse
  \/ HydrateRequest
  \/ HydrateResponse
  \/ PageDone

\* The calls without a filter id and without an explicit query.
LiveInit == Init /\ options.filterId = Undefined /\ options.jql = Undefined

SpecLive == LiveInit /\ [][LiveNext]_vars /\ WF_vars(LiveNext)

CommandNext ==
  \/ TestConnection
  \/ ConnectionResponse
  \/ FetchBugs
  \/ FilterResponse
  \/ SearchRequest
  \/ SearchResponse
  \/ HydrateRequest
  \/ HydrateResponse
  \/ PageDone
  \/ CommandEnds
  \/ RunAnalyzeBugs
  \/ RunAnalysisEnds

SpecCommand == CommandInit /\ [][CommandNext]_vars

\* The two commands that call the AI service: run on a project, with or
\* without a saved filter, and analyze on an input file.
PipelineInit ==
  \/ /\ CommandInit
     /\ command = "run"
     /\ argv.project = "PROJ"
     /\ argv.jql = Undefined
  \/ AnalyzeInit

PipelineNext == CommandNext \/ AnalyzeNext

SpecPipelines == PipelineInit /\ [][PipelineNext]_vars

TypeOK ==
  /\ pc \in {"start", "filterWait", "loop", "searchWait", "forLoop",
             "hydrateWait", "done", "failed"}
  /\ maxResults >= 0 => Len(bugs) <= maxResults
  /\ idx \in 1..(MaxListed + 1)


(***************************************************************************)
(* Properties of the retrieval engine.                                     *)
(***************************************************************************)

\* C1: for every non-negative maxResults n passed to fetchBugs, the number
\* of records returned is at most n.
C1_MaxResultsUpperBound ==
  (pc = "done" /\ options.hasMax /\ options.maxResults >= 0)
    => Len(returned) <= options.maxResults

\* The bound as the code keeps it: at most the effective maxResults, which
\* is the default when 0 is passed.
C1_EffectiveUpperBound ==
  (pc = "done" /\ options.maxResults >= 0)
    => Len(returned) <= EffectiveMax(options)

\* C2: once a search request has failed, the call has ended with the search
\* error and no record is delivered to the caller.
C2_SearchFailureIsFatal ==
  searchFailed => /\ pc = "failed"
                  /\ error = "Search failed"
                  /\ returned = <<>>

\* A second search request fails after a record was accumulated.
C2_Witness ==
  searchFailed /\ searchCount >= 2 /\ Len(bugs) >= 1 /\ pc = "failed"

RecordsOf(ids) == [i \in 1..Len(ids) |-> MapIssueToBug(IssueOf(ids[i]))]

\* C3: a failed hydration never ends the call with an error (only a failed
\* search or filter lookup does), and the call returns exactly the records
\* of the ids whose hydration succeeded.
C3_HydrationSkip ==
  /\ pc = "failed" =>
       \/ (error = "Search failed" /\ searchFailed)
       \/ (error = "Failed to get filter" /\ searchCount = 0)
  /\ pc # "failed" => error = "none"
  /\ pc = "done" => returned = RecordsOf(okIds)

\* The scenario of the specification: ids 1 and 2 on a last page, the
\* hydration of id 2 fails, the record of id 1 is returned.
C3_Witness ==
  /\ pc = "done"
  /\ searchCount = 1
  /\ issueIds = <<1, 2>>
  /\ data.isLast
  /\ hydFailed
  /\ returned = <<MapIssueToBug(IssueOf(1))>>

\* C4: after a search response with isLast = true no further search request
\* is issued; the ids of that page are hydrated (until maxResults is
\* reached) and the call returns.
C4_IsLastStops ==
  /\ [][lastSeen => searchCount' = searchCount]_vars
  /\ [][(pc = "forLoop" /\ data.isLast /\ pc' \notin {"forLoop", "hydrateWait"})
          => (pc' = "done" /\ returned' = bugs)]_vars
  /\ []((pc = "done" /\ data.isLast /\ Len(returned) < maxResults)
          => idx = Len(issueIds) + 1)

\* The call returned on an isLast page that also carried a token, with
\* fewer records than maxResults.
C4_Witness ==
  /\ pc = "done"
  /\ data.isLast
  /\ data.nextPageToken # Undefined
  /\ Len(issueIds) >= 1
  /\ Len(returned) >= 1
  /\ Len(returned) < maxResults
  /\ searchCount < MaxPages

\* The query text that the precedence rule selects for the options o.
ExpectedJql(o) ==
  IF o.filterId # Undefined THEN <<FilterJql>>
  ELSE IF o.jql # Undefined THEN <<o.jql>>
  ELSE IF o.project # Undefined
       THEN <<"type = Bug", " AND ", "project = \"", o.project, "\"",
              " ORDER BY created DESC">>
       ELSE <<"type = Bug", " ORDER BY created DESC">>

\* C11: whenever a search request has been issued, the query text is the
\* one chosen by precedence: filter query, else explicit query, else the
\* project query, else the all-bugs query.
C11_QueryPrecedence ==
  searchCount >= 1 => jql = ExpectedJql(options)

\* A search ran with the filter's query although an explicit query and a
\* project key were given too.
C11_Witness ==
  /\ searchCount >= 1
  /\ options.filterId = "F1" /\ options.jql = "Q" /\ options.project = "PROJ"
  /\ jql = <<FilterJql>>

\* Without a filter id a search ran with the explicit query although a
\* project key was given too.
C11_ExplicitQueryWitness ==
  /\ searchCount >= 1
  /\ options.filterId = Undefined /\ options.jql = "Q"
  /\ options.project = "PROJ"
  /\ jql = <<"Q">>

\* C12: with a filter id the call issues exactly one filter lookup, which
\* completes before the first search request; a failed lookup ends the call
\* with its error and no search or hydration request is issued.
C12_FilterLookupFirst ==
  /\ (options.filterId # Undefined /\ pc # "start") => filterCount = 1
  /\ options.filterId = Undefined => filterCount = 0
  /\ pc \in {"start", "filterWait"} => searchCount = 0
  /\ (options.filterId # Undefined /\ searchCount >= 1) => jql = <<FilterJql>>
  /\ error = "Failed to get filter" =>
       /\ pc = "failed"
       /\ returned = <<>>
       /\ searchCount = 0
       /\ listed = 0 /\ okIds = <<>> /\ ~hydFailed

\* The lookup of filter F1 failed and the call ended.
C12_Witness ==
  /\ options.filterId = "F1"
  /\ filterCount = 1
  /\ pc = "failed"
  /\ error = "Failed to get filter"

\* After a successful lookup two searches ran.
C12_SearchWitness ==
  /\ options.filterId = "F1" /\ filterCount = 1 /\ searchCount = 2

\* C13: the fetch command given --filter-id searches with the stored query
\* of that filter, after one filter lookup.
C13_FetchCommandUsesFilter ==
  (command = "fetch" /\ argv.filterId # Undefined /\ searchCount >= 1) =>
    /\ options.filterId = argv.filterId
    /\ filterCount = 1
    /\ jql = <<FilterJql>>

\* The run command does pass the filter id on.
C13_RunCommandUsesFilter ==
  (command = "run" /\ argv.filterId # Undefined /\ searchCount >= 1) =>
    /\ options.filterId = argv.filterId
    /\ filterCount = 1
    /\ jql = <<FilterJql>>

\* C14: in the fetch and run commands testConnection is called once and
\* has succeeded before any filter, search or hydration request; when it
\* fails the command exits with status 1 and the connection message, and
\* no such request is issued.
C14_PreCheckFirst ==
  /\ connCount <= 1
  /\ pc # "cmdStart" => connCount = 1
  /\ (filterCount >= 1 \/ searchCount >= 1 \/ pc = "hydrateWait") =>
       (connCount = 1 /\ connResult = "ok")
  /\ connResult = "failed" =>
       /\ pc = "exited"
       /\ cmdExit = 1
       /\ cmdMessage = "Failed to connect to Jira"
       /\ filterCount = 0 /\ searchCount = 0 /\ listed = 0
       /\ returned = <<>>

\* The pre-check of a run command failed.
C14_Witness ==
  /\ command = "run"
  /\ connCount = 1
  /\ connResult = "failed"
  /\ pc = "exited"
  /\ cmdExit = 1

\* After a successful pre-check a run command found no bugs.
C14_ZeroResultsWitness ==
  /\ connResult = "ok"
  /\ searchCount >= 1
  /\ cmdExit = 0
  /\ cmdMessage = "No bugs found matching your criteria."

\* C15: no two records of the result of a fetch call have the same key.
C15_UniqueKeys ==
  pc = "done" =>
    \A i, j \in 1..Len(returned) :
      i # j => returned[i].key # returned[j].key

\* C16: the record mapper returns a record for every raw issue.
C16_MapperNeverThrows ==
  mapped # <<>> => mapped[1].ok

\* For a raw issue whose fields object is missing or null the mapper returns
\* the record of defaults.
C16_MissingFieldsDefaults ==
  (mapped # <<>> /\ Get(rawIssue, "fields").t \in {"undefined", "null"}
     /\ rawIssue.t = "obj") =>
    /\ mapped[1].ok
    /\ mapped[1].bug.summary = JStr("")
    /\ mapped[1].bug.description = JNull
    /\ mapped[1].bug.status = JStr("Unknown")
    /\ mapped[1].bug.components = <<>>
    /\ mapped[1].bug.comments = <<>>
    /\ mapped[1].bug.labels = EmptyArray
    /\ DOMAIN mapped[1].bug.customFields = {}

\* C19: every fetch call eventually returns or fails.
C19_FetchTerminates == <>(pc \in {"done", "failed"})

\* C20: the first search request of a call carries no continuation token;
\* every later one carries the token of the latest search response and is
\* issued when every id of that page has been processed and no hydration is
\* pending.
C20_TokenThreaded ==
  [][(pc = "loop" /\ pc' = "searchWait") =>
       /\ (searchCount = 0 => sentToken' = NoToken)
       /\ (searchCount >= 1 =>
             /\ sentToken' # NoToken
             /\ sentToken' = data.nextPageToken)
       /\ idx = Len(issueIds) + 1]_vars

\* A third search request carries the token of the second page, after the
\* ids of that page were hydrated.
C20_Witness ==
  /\ pc = "searchWait"
  /\ sentToken = TokenNames[2]
  /\ data.nextPageToken = TokenNames[2]
  /\ Len(issueIds) >= 1
  /\ Len(okIds) >= 1

(***************************************************************************)
(* Properties of the analysis pipeline.                                    *)
(***************************************************************************)
HasReport == Len(report) = 1
TheReport == report[1]
Range(seq) == {seq[i] : i \in 1..Len(seq)}
StrSet(S) == {JStr(x) : x \in S}

\* The collections that the report model declares.
DeclaredCollections ==
  {"rootCauseClusters", "recurringIssues", "componentHotspots",
   "escapePatterns", "suggestedTestScenarios", "testingGaps",
   "defectInjectionPoints", "componentRiskScores", "regressionAnalysis",
   "customerImpacts", "testDataRecommendations", "processImprovements",
   "trendMetrics", "automationOpportunities", "linuxPortAnalysis",
   "recommendations"}

\* C5: a report returned by the normalizer contains every collection the
\* report model declares.
C5_AllCollectionsPresent ==
  HasReport => DeclaredCollections \subseteq DOMAIN TheReport

\* The collections the returned object does hold.
C5_ReturnedCollections ==
  HasReport =>
    DOMAIN TheReport =
      (DeclaredCollections \cup {"summary"})
        \ {"automationOpportunities", "linuxPortAnalysis"}

Severities == StrSet({"critical", "high", "medium", "low"})
Levels == StrSet({"low", "medium", "high"})
Priorities == StrSet({"critical", "high", "medium"})

\* Every element of the mapped collection k has field f in the set S.
FieldWithin(k, f, S) == \A e \in Range(TheReport[k]) : e[f] \in S

\* C6: every enumerated field of every sub-entity of a report holds a value
\* of its declared closed set.
C6_EnumeratedFieldsClosed ==
  HasReport =>
    /\ FieldWithin("rootCauseClusters", "severity", Severities)
    /\ \A h \in Range(Elements(TheReport.componentHotspots)) :
         Get(h, "trend") \in StrSet({"increasing", "stable", "decreasing"})
    /\ FieldWithin("escapePatterns", "category",
                   StrSet({"edge-case", "environment", "timing",
                           "data-driven", "integration", "configuration",
                           "race-condition", "hardware-specific"}))
    /\ FieldWithin("suggestedTestScenarios", "type",
                   StrSet({"unit", "integration", "e2e", "performance",
                           "stress", "environment"}))
    /\ FieldWithin("suggestedTestScenarios", "priority", Priorities)
    /\ FieldWithin("defectInjectionPoints", "phase",
                   StrSet({"requirements", "design", "coding", "integration",
                           "deployment"}))
    /\ FieldWithin("componentRiskScores", "complexityFactor", Levels)
    /\ FieldWithin("componentRiskScores", "changeFrequency", Levels)
    /\ FieldWithin("regressionAnalysis", "regressionType",
                   StrSet({"exact", "similar", "related-area"}))
    /\ FieldWithin("customerImpacts", "impactLevel", Severities)
    /\ FieldWithin("customerImpacts", "affectedUsers",
                   StrSet({"all", "many", "some", "few"}))
    /\ FieldWithin("customerImpacts", "estimatedCost", Levels)
    /\ FieldWithin("testDataRecommendations", "priority", Priorities)
    /\ FieldWithin("processImprovements", "area",
                   StrSet({"code-review", "testing", "deployment",
                           "requirements", "environment"}))
    /\ FieldWithin("processImprovements", "effort", Levels)
    /\ FieldWithin("processImprovements", "impact", Levels)
    /\ TheReport.trendMetrics.riskTrend
         \in StrSet({"improving", "stable", "worsening"})
    /\ FieldWithin("recommendations", "priority", Priorities)

\* JSON grammar: the text is one document, with optional whitespace around.
IsJsonDocument(text) ==
  \E i \in 1..Len(text) :
    /\ text[i].k = "doc"
    /\ \A j \in 1..Len(text) : j # i => IsSpace(text[j])

\* C7: for a reply that parses as JSON the normalizer raises no error and
\* returns a report whose pass-through collections are sequences.
C7_NoErrorOnParsableReply ==
  (replied /\ IsJsonDocument(jsonText)) =>
    /\ aError = "none"
    /\ HasReport
    /\ TheReport.recurringIssues.t = "arr"
    /\ TheReport.componentHotspots.t = "arr"

\* The cluster of the parsed reply that cluster c of the report comes from.
RawCluster(c) == Elements(Collection(analysis, "rootCauseClusters"))[c]

\* C8: each resolved bug of a cluster is one of the input records and its
\* key occurs in the bugKeys list of that cluster; a key that matches no
\* record resolves to nothing.
C8_ResolvedBugsSubset ==
  HasReport =>
    /\ Len(TheReport.rootCauseClusters)
         = Len(Elements(Collection(analysis, "rootCauseClusters")))
    /\ \A c \in 1..Len(TheReport.rootCauseClusters) :
         /\ \A b \in Range(TheReport.rootCauseClusters[c].bugs) :
              /\ b \in Range(filteredBugs)
              /\ JStr(b.key) \in Range(Elements(Get(RawCluster(c), "bugKeys")))
         /\ \A key \in Range(Elements(Get(RawCluster(c), "bugKeys"))) :
              (\E b \in Range(filteredBugs) : key = JStr(b.key))
                <=> (\E b \in Range(TheReport.rootCauseClusters[c].bugs) :
                       key = JStr(b.key))

\* The scenario of the specification: bugKeys [BUG-1, BUG-9] with only
\* BUG-1 in the input, in a fenced reply.
C8_Witness ==
  /\ aPc = "returned"
  /\ replyText = Fenced(<<Word("json")>>, ScenarioReply)
  /\ filteredBugs = <<JiraBug("BUG-1", "first", "Done", TRUE)>>
  /\ TheReport.rootCauseClusters[1].bugs = filteredBugs
  /\ TheReport.rootCauseClusters[1].severity = Medium

\* C9: when the de-fenced reply is no JSON document, the command ends with
\* the parse error and a failure status, and no report is returned or
\* rendered.
C9_ParseErrorIsFatal ==
  (replied /\ ~IsJsonDocument(jsonText)) =>
    /\ aPc = "exit"
    /\ exitCode = 1
    /\ aError = "SyntaxError"
    /\ report = <<>>
    /\ rendered = <<>>

\* The reply `not json`.
C9_Witness ==
  /\ replied
  /\ replyText = <<Word("not json")>>
  /\ jsonText = replyText
  /\ aPc = "exit"
  /\ aError = "SyntaxError"

RawRecommendations == Elements(Collection(analysis, "recommendations"))
RecommendationDefaults ==
  [text |-> EmptyString, reasoning |-> EmptyString,
   targetBugs |-> EmptyArray, priority |-> Medium]

\* C10: the recommendations of a report have the length and order of the
\* reply's list; a bare string becomes the text of a structured element
\* with default fields, and an object keeps the fields it has and gets the
\* defaults for the fields it lacks.
C10_RecommendationShape ==
  HasReport =>
    /\ Len(TheReport.recommendations) = Len(RawRecommendations)
    /\ \A i \in 1..Len(RawRecommendations) :
         LET raw == RawRecommendations[i]
             out == TheReport.recommendations[i]
         IN /\ DOMAIN out = DOMAIN RecommendationDefaults
            /\ raw.t = "str" =>
                 out = [RecommendationDefaults EXCEPT !.text = raw]
            /\ raw.t = "obj" =>
                 \A f \in DOMAIN RecommendationDefaults :
                   /\ Get(raw, f) = JUndef => out[f] = RecommendationDefaults[f]
                   /\ ~Falsy(Get(raw, f)) => out[f] = Get(raw, f)

\* A bare string followed by a structured element, both rendered in order.
C10_Witness ==
  /\ aPc = "returned"
  /\ RawRecommendations = <<JStr("Add more tests"), FullRecommendation>>
  /\ rendered[1].recommendations =
       <<[text |-> JStr("Add more tests"), reasoning |-> EmptyString,
          targetBugs |-> EmptyArray, priority |-> Medium],
         [text |-> JStr("t"), reasoning |-> JStr("r"),
          targetBugs |-> JArr(<<JStr("BUG-1")>>), priority |-> JStr("high")]>>

FenceTags == {<<>>, <<Word("json")>>, <<Word("javascript")>>}

\* C17: a reply that is a fenced JSON object, with any language tag or
\* none, is parsed like the bare object.
C17_FencedParsedLikeBare ==
  \A tag \in FenceTags, val \in {EmptyObject, ScenarioReply} :
    (replied /\ replyText = Fenced(tag, val)) =>
      /\ jsonText = <<Doc(val)>>
      /\ analysis = val
      /\ aError = "none"

\* The same with the tag json or no tag, and a reply that does not start
\* with a fence is parsed as its trimmed text.
C17_JsonTagOrNone ==
  /\ \A tag \in {<<>>, <<Word("json")>>}, val \in {EmptyObject, ScenarioReply} :
       (replied /\ replyText = Fenced(tag, val)) =>
         /\ jsonText = <<Doc(val)>>
         /\ analysis = val
         /\ aError = "none"
  /\ (replied /\ ~StartsWithFence(Trim(replyText))) => jsonText = Trim(replyText)

\* C18: in a report no field of an element of a mapped collection is left
\* undefined.
C18_NoUndefinedField ==
  HasReport =>
    \A k \in MappedKeys :
      \A e \in Range(TheReport[k]) :
        \A f \in DOMAIN e \ {"bugs"} : e[f] # JUndef

\* The fields that enrichAnalysis defaults with || are never undefined.
C18_DefaultedFields ==
  HasReport =>
    /\ \A e \in Range(TheReport.rootCauseClusters) :
         e.severity # JUndef /\ e.affectedComponents # JUndef
    /\ \A e \in Range(TheReport.suggestedTestScenarios) :
         e.priority # JUndef /\ e.type # JUndef /\ e.steps # JUndef
    /\ \A e \in Range(TheReport.recommendations) :
         \A f \in DOMAIN e : e[f] # JUndef

(***************************************************************************)
(* Properties of the search requests.                                      *)
(***************************************************************************)

\* C21: every search request asks for exactly min(50, maxResults - number
\* of records accumulated so far) results, and when a search request is
\* issued that number is at least 1 and at most 50, for every maxResults
\* the caller can pass (absent maxResults counts as 100).
C21_RequestedSizeInRange ==
  pc = "searchWait" =>
    /\ sentSize = Min(50, EffectiveMax(options) - Len(bugs))
    /\ sentSize >= 1
    /\ sentSize <= 50

\* The range as the code keeps it: for a maxResults that is absent, zero or
\* positive every request asks for 1..50 results.
C21_NonNegativeInRange ==
  (pc = "searchWait" /\ options.maxResults >= 0) =>
    /\ sentSize = Min(50, EffectiveMax(options) - Len(bugs))
    /\ sentSize >= 1
    /\ sentSize <= 50

\* C22: once the number of accumulated records has reached maxResults, the
\* call issues no further hydration request (the remaining ids of the
\* current page are not fetched) and no further search request before it
\* returns.
C22_StopsAtMaxResults ==
  [][(bugs # <<>> /\ Len(bugs) >= maxResults)
       => /\ pc' = "done"
          /\ searchCount' = searchCount
          /\ returned' = bugs]_vars

\* The cap is reached in the middle of a page that is not the last one: an
\* id of the page is left and the tracker offered a further page.
C22_Witness ==
  /\ pc = "done"
  /\ Len(returned) = maxResults
  /\ idx <= Len(issueIds)
  /\ ~data.isLast
  /\ data.nextPageToken # Undefined

\* C23: every network call is attempted exactly once: a failed
\* filter-lookup, search or hydration request is never issued again within
\* the same fetch call, and each issue id listed by a page triggers at most
\* one hydration request per listing.
C23_NoRetry ==
  [][/\ (pc = "hydrateWait" => (pc' = "forLoop" /\ idx' = idx + 1))
     /\ (pc' = "hydrateWait"
           => (pc = "forLoop" /\ idx' = idx /\ issueIds' = issueIds))
     /\ (idx' # idx => (idx' = idx + 1 \/ pc = "searchWait"))
     /\ (searchCount' # searchCount
           => (pc = "loop" /\ ~searchFailed /\ searchCount' = searchCount + 1))
     /\ (filterCount' # filterCount
           => (pc = "start" /\ filterCount = 0 /\ filterCount' = 1))
     /\ (pc = "failed"
           => (pc' = "failed" /\ UNCHANGED <<searchCount, filterCount>>))]_vars

\* A page lists the same id twice; one of the two hydrations failed and the
\* call went on to the end of the page.
C23_Witness ==
  /\ pc = "done"
  /\ issueIds = <<1, 1>>
  /\ okIds = <<1>>
  /\ idx = 3
  /\ hydFailed

\* C29: the sequence returned by a fetch call lists the records in the
\* order in which the search pages listed their ids (page by page, then
\* position within the page), with only the ids whose hydration failed
\* removed; a later-listed id never precedes an earlier-listed one.
C29_ListingOrder ==
  [][/\ ((bugs' # bugs) <=> (okIds' # okIds))
     /\ (bugs' # bugs
           => /\ pc = "hydrateWait"
              /\ bugs' = Append(bugs, MapIssueToBug(IssueOf(issueIds[idx])))
              /\ okIds' = Append(okIds, issueIds[idx]))
     /\ (idx' # idx => (idx' = idx + 1 \/ (pc = "searchWait" /\ idx' = 1)))
     /\ (issueIds' # issueIds => (pc = "searchWait" /\ idx' = 1))
     /\ (pc = "searchWait" => bugs' = bugs)
     /\ ((pc # "done" /\ pc' = "done") => returned' = bugs)]_vars

\* Two pages: the first lists id 2 and then an id whose hydration fails,
\* the second lists id 1; the result is the record of 2, then that of 1.
C29_Witness ==
  /\ pc = "done"
  /\ searchCount = 2
  /\ hydFailed
  /\ issueIds = <<1>>
  /\ okIds = <<2, 1>>
  /\ returned = <<MapIssueToBug(IssueOf(2)), MapIssueToBug(IssueOf(1))>>

(***************************************************************************)
(* Properties of interleaved calls.                                        *)
(***************************************************************************)

\* The result of a call of query q with cap n that runs alone against the
\* tracker: page after page, the ids of a page in order.
RECURSIVE AloneHydrate(_, _, _)
AloneHydrate(ids, acc, n) ==
  IF ids = <<>> \/ Len(acc) >= n THEN acc
  ELSE AloneHydrate(Tail(ids),
                    IF Head(ids) \in tracker.bad THEN acc
                    ELSE Append(acc, MapIssueToBug(IssueOf(Head(ids)))),
                    n)

RECURSIVE AloneFrom(_, _, _, _)
AloneFrom(q, k, acc, n) ==
  LET pages == tracker.pages[q] IN
  IF k > Len(pages) \/ pages[k].fail
  THEN [pc |-> "failed", returned |-> <<>>, error |-> "Search failed"]
  ELSE LET acc2 == AloneHydrate(pages[k].ids, acc, n) IN
       IF pages[k].isLast \/ Len(acc2) >= n \/ ~pages[k].hasToken
       THEN [pc |-> "done", returned |-> acc2, error |-> "none"]
       ELSE AloneFrom(q, k + 1, acc2, n)

Alone(c) == AloneFrom(c, 1, <<>>, calls[c].maxResults)

IsPrefix(a, b) == Len(a) <= Len(b) /\ a = SubSeq(b, 1, Len(a))

\* C24: two fetch calls whose requests interleave arbitrarily on the same
\* service instance do not interfere: the records a call has accumulated
\* and its continuation token come from its own requests only, and each
\* call returns what it would return if it ran alone.
C24_NoInterference ==
  \A c \in Calls :
    /\ calls[c].sent.q \in {0, c}
    /\ calls[c].data.nextPageToken.q \in {0, c}
    /\ calls[c].pc \notin {"start", "done", "failed"}
         => /\ locals[c].nextPageToken.q \in {0, c}
            /\ IsPrefix(locals[c].bugs, Alone(c).returned)
               \/ Alone(c).pc = "failed"
    /\ calls[c].pc \in {"done", "failed"}
         => /\ calls[c].pc = Alone(c).pc
            /\ calls[c].returned = Alone(c).returned
            /\ calls[c].error = Alone(c).error

\* Both calls are between a request and its response, the first on its
\* second page and the second in a hydration, each with a record.
C24_Witness ==
  /\ calls[1].pc = "searchWait"
  /\ calls[1].sent = [q |-> 1, k |-> 1]
  /\ calls[2].pc = "hydrateWait"
  /\ locals[1].bugs # <<>>
  /\ locals[2].bugs # <<>>

\* Both calls have returned, with different results.
C24_BothDoneWitness ==
  /\ calls[1].pc = "done"
  /\ calls[2].pc = "done"
  /\ calls[1].returned # calls[2].returned
  /\ Len(calls[1].returned) = 2

(***************************************************************************)
(* Properties of the record mapper.                                        *)
(***************************************************************************)

\* The reference walk of a rich-document tree.
RECURSIVE RefWalk(_)
RECURSIVE RefChildren(_)
RefWalk(node) ==
  LET kind == Get(node, "type")
      text == Get(node, "text")
      content == Get(node, "content")
  IN IF kind.t = "str" /\ kind.v = "text"
     THEN IF text.t = "str" /\ text.v # "" THEN <<text.v>> ELSE <<>>
     ELSE IF content.t = "arr" THEN RefChildren(content.v)
     ELSE <<>>
RefChildren(nodes) ==
  IF nodes = <<>> THEN <<>>
  ELSE RefWalk(Head(nodes)) \o RefChildren(Tail(nodes))

RECURSIVE RefTop(_)
RefTop(nodes) ==
  IF nodes = <<>> THEN <<>>
  ELSE IF Len(nodes) = 1 THEN RefWalk(nodes[1])
  ELSE RefWalk(nodes[1]) \o <<"\n">> \o RefTop(Tail(nodes))

RefFlatten(doc) ==
  IF Get(doc, "content").t \in {"undefined", "null"} THEN JStr("")
  ELSE IF RefTop(Get(doc, "content").v) = <<>> THEN JStr("")
  ELSE [t |-> "text", v |-> RefTop(Get(doc, "content").v)]

\* A document tree: every node is an object, content is a list of nodes.
RECURSIVE IsTree(_)
IsTree(node) ==
  /\ node.t = "obj"
  /\ Get(node, "content").t = "arr"
       => \A i \in 1..Len(Get(node, "content").v) :
            IsTree(Get(node, "content").v[i])
IsDocument(doc) ==
  /\ IsTree(doc)
  /\ Get(doc, "content").t \in {"undefined", "null", "arr"}

\* C25: rich-document flattening equals the reference recursive walk for
\* every document tree of any nesting depth: a text node yields its text
\* (empty if it has none), any other node with a content list yields the
\* concatenation of its children's results, every other node yields the
\* empty string, the results of the top-level nodes are joined with
\* newlines, and a document without content yields the empty string.  The
\* description is the flattened text (null when it is empty), a comment
\* body the flattened text.
C25_FlatteningIsReferenceWalk ==
  mapped # <<>> =>
    LET fields == Get(rawIssue, "fields")
        description == Get(fields, "description")
        comments == Elements(Get(Get(fields, "comment"), "comments"))
    IN /\ IsDocument(description)
            => /\ mapped[1].ok
               /\ mapped[1].bug.description
                    = Or(RefFlatten(description), JNull)
       /\ \A i \in 1..Len(comments) :
            IsDocument(Get(comments[i], "body"))
              => /\ mapped[1].ok
                 /\ mapped[1].bug.comments[i].body
                      = RefFlatten(Get(comments[i], "body"))

\* A text at the deepest nesting, and two top-level texts joined by a
\* newline.
C25_Witness ==
  /\ mapped # <<>>
  /\ Get(Get(rawIssue, "fields"), "description")
       = Node("doc", <<Nest(TextNode("b"), MaxDepth)>>)
  /\ mapped[1].ok
  /\ mapped[1].bug.description = JText(<<"b">>)
C25_JoinWitness ==
  /\ mapped # <<>>
  /\ mapped[1].ok
  /\ Len(mapped[1].bug.comments) = 1
  /\ mapped[1].bug.comments[1].body = JText(<<"a", "\n", "b">>)

FixedFields ==
  [failureType |-> "customfield_10165", customerImpact |-> "customfield_10066",
   customer |-> "customfield_10049", severity |-> "customfield_10268"]
EscapeField == "customfield_10164"

C26_FalsyValueWitness ==
  /\ mapped # <<>>
  /\ mapped[1].ok
  /\ "customfield_10001" \in DOMAIN mapped[1].bug.customFields
  /\ mapped[1].bug.customFields["customfield_10001"] = JNum(0)

(***************************************************************************)
(* Properties of the prompt and of the normalizer's input.                 *)
(***************************************************************************)
HasLine(block, label) == \E j \in 1..Len(block) : block[j].line = label
WithoutLine(block, label) == SelectSeq(block, LAMBDA l : l.line # label)

\* C27: the per-record block of the prompt depends on the analysis mode:
\* the failure-type/customer line is present in one of the two modes
\* (escape, all) and omitted in the other, all other lines of the block
\* being built the same way in both modes.
C27_LineInOneModeOnly ==
  prompt # <<>> =>
    /\ prompt[1] = BuildPrompt(filteredBugs, mode)
    /\ \A i \in 1..Len(filteredBugs) :
         LET inEscape == BuildPrompt(filteredBugs, "escape").context[i]
             inAll == BuildPrompt(filteredBugs, "all").context[i]
         IN /\ HasLine(inEscape, "Failure Type") # HasLine(inAll, "Failure Type")
            /\ WithoutLine(inEscape, "Failure Type")
                 = WithoutLine(inAll, "Failure Type")

\* C27, amended: the per-record block of the prompt does not depend on the
\* analysis mode: in both modes the block of a record starts with the
\* title, status, failure-type/customer, customer-impact, components and
\* labels lines, the failure-type/customer line holding the failure type
\* and the customer of the record (Unknown when null or empty), followed by
\* the description line when the record has a description and the comments
\* line when it has comments.
C27_BlockSameInBothModes ==
  prompt # <<>> =>
    /\ prompt[1].template = mode
    /\ Len(prompt[1].context) = Len(filteredBugs)
    /\ \A i \in 1..Len(filteredBugs) :
         LET block == prompt[1].context[i]
             bug == filteredBugs[i]
         IN /\ [j \in 1..Len(block) |-> block[j].line]
                 = <<"title", "Status", "Failure Type", "Customer Impact",
                     "Components", "Labels">>
                   \o (IF bug.description.length > 0
                       THEN <<"Description">> ELSE <<>>)
                   \o (IF bug.comments # <<>>
                       THEN <<"Recent comments">> ELSE <<>>)
            /\ block[3].failureType
                 = (IF bug.failureType \in {NullAttr, ""} THEN "Unknown"
                    ELSE bug.failureType)
            /\ block[3].customer
                 = (IF bug.customer \in {NullAttr, ""} THEN "Unknown"
                    ELSE bug.customer)

\* A prompt of the all mode whose blocks carry the failure-type/customer
\* line, one of them with an unknown failure type.
C27_Witness ==
  /\ prompt # <<>>
  /\ mode = "all"
  /\ Len(prompt[1].context) = 2
  /\ HasLine(prompt[1].context[1], "Failure Type")
  /\ prompt[1].context[2][3].failureType = "Unknown"
\* A prompt of the escape mode with the line.
C27_EscapeWitness ==
  /\ prompt # <<>>
  /\ mode = "escape"
  /\ prompt[1].context[1][3].failureType = "Positive Failure"
  /\ prompt[1].context[1][3].customer = "ACME"

\* C28: the normalizer never changes its input: after an analyze call the
\* input record list and every field of every input record are unchanged,
\* and the bugs placed in clusters are the input records themselves, not
\* altered.
C28_InputUnchanged ==
  [][aPc = "aiWait" =>
       /\ filteredBugs' = filteredBugs
       /\ inputBugs' = inputBugs
       /\ \A i \in 1..Len(filteredBugs') :
            filteredBugs'[i] \in Range(inputBugs')
       /\ Len(report') = 1 =>
            \A c \in 1..Len(report'[1].rootCauseClusters) :
              \A b \in Range(report'[1].rootCauseClusters[c].bugs) :
                \E i \in 1..Len(filteredBugs') : b = filteredBugs'[i]]_vars

\* A report whose first cluster holds both input records, in the order of
\* its bugKeys, after the command has returned.
C28_Witness ==
  /\ aPc = "returned"
  /\ Len(filteredBugs) = 2
  /\ filteredBugs = inputBugs
  /\ filteredBugs[1] # filteredBugs[2]
  /\ Len(TheReport.rootCauseClusters) >= 1
  /\ Len(TheReport.rootCauseClusters[1].bugs) = 2
  /\ Range(TheReport.rootCauseClusters[1].bugs) = Range(filteredBugs)

\* The records the mode filter keeps: all of them in all mode, in escape
\* mode those with isEscapeBug set and a status other than Open.
KeptByMode ==
  {i \in 1..Len(inputBugs) :
     mode = "escape" => (inputBugs[i].isEscapeBug /\ inputBugs[i].status # "Open")}

\* C30: neither command ever calls the AI service with an empty bug list:
\* run stops without analysis when retrieval returned zero bugs, and
\* analyze stops with a failure when no bug remains after the mode filter.
C30_NoEmptyAnalysis ==
  /\ \A i \in 1..Len(aiRequests) : Len(aiRequests[i]) >= 1
  /\ (command = "run" /\ pc \in {"analysis", "analysisWait", "exited"}
        /\ error = "none" /\ searchCount >= 1 /\ returned = <<>>)
       => /\ pc = "exited"
          /\ cmdExit = 0
          /\ aiRequests = <<>>
  /\ (aPc \notin {"none", "start"} /\ KeptByMode = {})
       => /\ aPc = "exit"
          /\ exitCode = 1
          /\ aError = "none"
          /\ aiRequests = <<>>
          /\ prompt = <<>>

\* analyze in escape mode on a file whose only escape bug is still Open:
\* the command has failed without a request.
C30_Witness ==
  /\ aPc = "exit"
  /\ mode = "escape"
  /\ Len(inputBugs) = 2
  /\ \E i \in 1..2 : inputBugs[i].isEscapeBug /\ inputBugs[i].status = "Open"
  /\ exitCode = 1
  /\ aiRequests = <<>>
\* run whose retrieval returned no bug although a page listed an id: the
\* command has ended without analysis.
C30_RunWitness ==
  /\ command = "run"
  /\ pc = "exited"
  /\ hydFailed
  /\ returned = <<>>
  /\ error = "none"
  /\ cmdExit = 0
  /\ aiRequests = <<>>
\* run that passed its records to the AI service.
C30_RunAnalysisWitness ==
  /\ command = "run"
  /\ pc = "analysisWait"
  /\ Len(aiRequests) = 1
  /\ aiRequests[1] = returned
  /\ Len(returned) = 2


=============================================================================
